---- MODULE Spec2Model ----
(***************************************************************************)
(* Model of the virtual-memory core: the UserGrants container of           *)
(* src/context/memory.rs (grant set + hole map) and the reentrant          *)
(* kernel-half lock of src/arch/x86/rmm.rs (KernelMapper).                 *)
(*                                                                         *)
(* Addresses are bytes.  PAGE_SIZE and USER_END_OFFSET are scaled down so  *)
(* that the address space can be enumerated; every computation is done on  *)
(* byte addresses exactly as in the source.                                *)
(***************************************************************************)
EXTENDS Integers, Sequences, FiniteSets, TLC

\* ------------------------------------------------------------------ bounds
\* bytes per page (scaled; 4096 in the kernel)
PAGE_SIZE == 2
\* pages in the user half (scaled)
UserPages == 5
\* hardware threads taking the kernel-half lock
NCpu == 2
\* live KernelMapper guards one hardware thread may hold at once
MaxGuards == 2
\* pages of an address space that the grant constructors are given
GPages == 2
\* frames managed by the frame allocator
NFrames == 3
\* Grant values alive at once
MaxLive == 2
\* Grant / AddrSpace calls in one run
MaxOps == 4
\* bits of a machine word (scaled; usize has 32 or 64)
WordBits == 5
\* entries of the firmware memory map
MaxEntries == 3
\* entries of the static area table (scaled; 512 in the kernel)
AreaSlots == 2
\* largest start address and largest size of the regions given to the Region methods
MaxRegion == 4
\* pages of the window in which extract is given grants and regions
XPages == 3
\* pages of the largest kernel image given to the boot mapper
KernelPages == 3

USER_END_OFFSET == UserPages * PAGE_SIZE
\* usize values are 0 .. WordMod - 1
WordMod == 2 ^ WordBits

\* ------------------------------------------------------------- state
VARIABLES
    inner,       \* UserGrants.inner : set of grants, keyed by region start
    holes,       \* UserGrants.holes : map hole start -> hole size
    panicked,    \* an assertion of the container failed (kernel panic)
    ret,         \* the last UserGrants call: its arguments and its return value
    LOCK_OWNER,  \* rmm.rs static LOCK_OWNER
    LOCK_COUNT,  \* rmm.rs static LOCK_COUNT
    pc,          \* per hardware thread: position inside lock_inner / drop
    guards,      \* per hardware thread: ro flags of its live KernelMapper guards
    spun,        \* per hardware thread: the current lock_inner call has spun
    prevCount,   \* per hardware thread: value returned by its last fetch_add/fetch_sub
    access,      \* the last mapper accessor call made through a guard
    used,        \* frames the frame allocator has handed out
    badfree,     \* a frame was freed that the allocator had not handed out
    table,       \* per address space: page -> leaf entry (frame, flags) or none
    mem,         \* contents of each allocator frame
    live,        \* the Grant values that exist, each with the space it is mapped in
    gpanic,      \* a Grant operation panicked
    gret,        \* the last Grant / AddrSpace call: arguments and result
    nops,        \* Grant / AddrSpace calls made so far
    ra,          \* Region methods: self
    rb,          \* Region methods: the argument
    eg,          \* Grant::extract: self
    rout,        \* Region methods: the last call and its result
    ures,        \* the UnmapResult a caller holds, if any
    held,        \* the file reference a caller moved out of an UnmapResult
    closes,      \* close calls made on the file reference
    bootloader_areas, \* the firmware memory map handed to init
    AREAS,       \* rmm.rs static AREAS
    AREA_COUNT,  \* rmm.rs static AREA_COUNT
    area_i,      \* init: areas emitted so far
    boot_pos,    \* init: firmware entries visited so far
    init_panic,  \* init panicked
    overflow_checks, \* the kernel is built with arithmetic overflow checks
    image,       \* what inner is given: the areas, the kernel image and the blobs
    ktable,      \* the kernel table the boot mapper builds: page -> entry or none
    map_pc       \* inner: mapping loops completed so far

grantVars == <<inner, holes, panicked, ret>>
lockVars == <<LOCK_OWNER, LOCK_COUNT, pc, guards, spun, prevCount, access>>
memVars == <<used, badfree, table, mem, live, gpanic, gret, nops>>
regionVars == <<ra, rb, eg, rout>>
resultVars == <<ures, held, closes>>
bootVars == <<bootloader_areas, AREAS, AREA_COUNT, area_i, boot_pos, init_panic,
             overflow_checks>>
mapVars == <<image, ktable, map_pc>>
vars == <<inner, holes, panicked, ret,
          LOCK_OWNER, LOCK_COUNT, pc, guards, spun, prevCount, access,
          used, badfree, table, mem, live, gpanic, gret, nops,
          ra, rb, eg, rout,
          ures, held, closes,
          bootloader_areas, AREAS, AREA_COUNT, area_i, boot_pos, init_panic,
          overflow_checks,
          image, ktable, map_pc>>

\* ------------------------------------------------------------- helpers
Max(S) == CHOOSE x \in S : \A y \in S : y <= x
Min(S) == CHOOSE x \in S : \A y \in S : x <= y
cmp_max(a, b) == IF a >= b THEN a ELSE b
cmp_min(a, b) == IF a <= b THEN a ELSE b
saturating_sub(a, b) == IF a >= b THEN a - b ELSE 0

\* BTreeMap insert / remove on a map represented as a function
MapInsert(m, k, v) == [x \in (DOMAIN m) \cup {k} |-> IF x = k THEN v ELSE m[x]]
MapRemove(m, k) == [x \in (DOMAIN m) \ {k} |-> m[x]]

\* paging::round_up_pages
round_up_pages(n) == ((n + PAGE_SIZE - 1) \div PAGE_SIZE) * PAGE_SIZE

\* ------------------------------------------------------------- Region
Region(start, size) == [start |-> start, size |-> size]
byte(address) == Region(address, 1)
\* usize addition: it wraps in a build without overflow checks and panics in a
\* build with them
add_overflows(a, b) == a + b >= WordMod
wrapping_add(a, b) == (a + b) % WordMod
end_address(r) == wrapping_add(r.start, r.size)
is_empty(r) == r.size = 0
between(start, end) == Region(start, saturating_sub(end, start))
intersect(a, b) ==
    between(cmp_max(a.start, b.start), cmp_min(end_address(a), end_address(b)))
round(r) == [r EXCEPT !.size = round_up_pages(r.size)]

collides_by_start(a, b) == a.start <= b.start
collides(a, b) ==
    a.start <= b.start /\ end_address(b) - a.start < a.size
occupies(a, b) == collides(round(a), b)

\* ------------------------------------------------------------- UserGrants
\* Option<T> is the empty set or a singleton
None == {}
Some(x) == {x}

contains(gs, address) ==
    LET below == {g \in gs : g.start <= address}
    IN  IF below = {} THEN None
        ELSE LET last == CHOOSE g \in below : \A o \in below : o.start <= g.start
             IN  IF occupies(last, byte(address)) THEN Some(last) ELSE None

\* take_while over the grants of start >= from, in ascending order
RECURSIVE TakeWhileIntersect(_, _)
TakeWhileIntersect(rest, requested) ==
    IF rest = {} THEN << >>
    ELSE LET g == CHOOSE x \in rest : \A o \in rest : x.start <= o.start
         IN  IF ~is_empty(intersect(g, requested))
             THEN <<g>> \o TakeWhileIntersect(rest \ {g}, requested)
             ELSE << >>

\* variant: the scan starts at the requested region, without the lookup of the
\* grant that contains requested.start
conflicts_from_requested(gs, requested) ==
    TakeWhileIntersect({g \in gs : g.start >= requested.start}, requested)

conflicts(gs, requested) ==
    LET start == contains(gs, requested.start)
        start_region == IF start = None THEN requested
                        ELSE CHOOSE g \in start : TRUE
    IN  TakeWhileIntersect({g \in gs : g.start >= start_region.start}, requested)

\* variant: the hole at address 0 is not shortened by the null page
RECURSIVE FindHole_nonull(_, _, _)
FindHole_nonull(h, keys, size) ==
    IF keys = {} THEN None
    ELSE LET k == Min(keys)
         IN  IF size <= h[k] THEN Some(k) ELSE FindHole_nonull(h, keys \ {k}, size)

\* variant: the holes are visited in descending address order
RECURSIVE FindHole_descending(_, _, _)
FindHole_descending(h, keys, size) ==
    IF keys = {} THEN None
    ELSE LET k == Max(keys)
             avail == IF k = 0 THEN saturating_sub(h[k], PAGE_SIZE) ELSE h[k]
         IN  IF size <= avail THEN Some(k)
             ELSE FindHole_descending(h, keys \ {k}, size)

\* iterate the holes in ascending address order, first that fits
RECURSIVE FindHole(_, _, _)
FindHole(h, keys, size) ==
    IF keys = {} THEN None
    ELSE LET k == Min(keys)
             avail == IF k = 0 THEN saturating_sub(h[k], PAGE_SIZE) ELSE h[k]
         IN  IF size <= avail THEN Some(k) ELSE FindHole(h, keys \ {k}, size)

find_free(h, size) ==
    LET found == FindHole(h, DOMAIN h, size)
    IN  IF found = None THEN None
        ELSE LET hole_start == CHOOSE k \in found : TRUE
             IN  Some(Region(cmp_max(hole_start, PAGE_SIZE), size))

\* Result<Region>: ok with a region, or an error code
Ok(r) == [ok |-> TRUE, val |-> Some(r), err |-> "none"]
Err(e) == [ok |-> FALSE, val |-> None, err |-> e]
ok_or(opt, e) == IF opt = None THEN Err(e) ELSE Ok(CHOOSE r \in opt : TRUE)

find_free_at(gs, h, address, size, flags) ==
    IF address = 0 THEN ok_or(find_free(h, size), "ENOMEM")
    ELSE LET requested == Region(address, size)
         IN  IF end_address(requested) > USER_END_OFFSET \/ address % PAGE_SIZE # 0
             THEN Err("EINVAL")
             ELSE IF contains(gs, requested.start) # None
                  THEN IF "MAP_FIXED_NOREPLACE" \in flags THEN Err("EEXIST")
                       ELSE IF "MAP_FIXED" \in flags THEN Err("EOPNOTSUPP")
                       ELSE ok_or(find_free(h, requested.size), "ENOMEM")
                  ELSE Ok(requested)

\* variant: a grant in the middle of the previous hole shrinks it, and the
\* tail of the hole is not put back
reserve_nosplit(h, grant) ==
    LET before == {k \in DOMAIN h : k < grant.start}
        h1 == IF before = {} THEN h
              ELSE LET hole_offset == Max(before)
                       prev_hole_end == hole_offset + h[hole_offset]
                   IN  IF prev_hole_end > grant.start
                       THEN [h EXCEPT ![hole_offset] = grant.start - hole_offset]
                       ELSE h
    IN  IF grant.start \in DOMAIN h1
        THEN LET remainder == h1[grant.start] - grant.size
                 h2 == MapRemove(h1, grant.start)
             IN  IF remainder > 0 THEN MapInsert(h2, end_address(grant), remainder)
                 ELSE h2
        ELSE h1

reserve(h, grant) ==
    LET before == {k \in DOMAIN h : k < grant.start}
        h1 == IF before = {} THEN h
              ELSE LET hole_offset == Max(before)
                       prev_hole_end == hole_offset + h[hole_offset]
                       shrunk == IF prev_hole_end > grant.start
                                 THEN [h EXCEPT ![hole_offset] = grant.start - hole_offset]
                                 ELSE h
                   IN  IF prev_hole_end > end_address(grant)
                       THEN MapInsert(shrunk, end_address(grant),
                                      prev_hole_end - end_address(grant))
                       ELSE shrunk
    IN  IF grant.start \in DOMAIN h1
        THEN LET remainder == h1[grant.start] - grant.size
                 h2 == MapRemove(h1, grant.start)
             IN  IF remainder > 0 THEN MapInsert(h2, end_address(grant), remainder)
                 ELSE h2
        ELSE h1

\* variant: the freed region is never merged into the hole directly before it
unreserve_noprev(h, grant) ==
    LET exactly_after_size == IF end_address(grant) \in DOMAIN h
                              THEN h[end_address(grant)] ELSE 0
        h1 == MapRemove(h, end_address(grant))
    IN  MapInsert(h1, grant.start, grant.size + exactly_after_size)

\* variant: the hole directly after the freed region is removed and its size
\* is not added
unreserve_noafter(h, grant) ==
    LET h1 == MapRemove(h, end_address(grant))
        before == {k \in DOMAIN h1 : k < grant.start}
        prev == IF before = {} THEN None
                ELSE LET k == Max(before)
                     IN  IF k + h1[k] = grant.start THEN Some(k) ELSE None
    IN  IF prev # None
        THEN LET hole_offset == CHOOSE k \in prev : TRUE
             IN  [h1 EXCEPT ![hole_offset] = end_address(grant) - hole_offset]
        ELSE MapInsert(h1, grant.start, grant.size)

unreserve(h, grant) ==
    LET exactly_after_size == IF end_address(grant) \in DOMAIN h
                              THEN h[end_address(grant)] ELSE 0
        h1 == MapRemove(h, end_address(grant))
        before == {k \in DOMAIN h1 : k < grant.start}
        prev == IF before = {} THEN None
                ELSE LET k == Max(before)
                     IN  IF k + h1[k] = grant.start THEN Some(k) ELSE None
    IN  IF prev # None
        THEN LET hole_offset == CHOOSE k \in prev : TRUE
             IN  [h1 EXCEPT ![hole_offset] =
                        end_address(grant) - hole_offset + exactly_after_size]
        ELSE MapInsert(h1, grant.start, grant.size + exactly_after_size)

\* BTreeSet::insert keeps the element already stored under an equal key
set_insert(gs, grant) ==
    IF \E g \in gs : g.start = grant.start THEN gs ELSE gs \cup {grant}

\* insert: the assertion, then reserve and the set insert
insert_asserts(gs, grant) == Len(conflicts(gs, grant)) = 0
insert(ug, grant) ==
    [inner |-> set_insert(ug.inner, grant), holes |-> reserve(ug.holes, grant)]

\* take: BTreeSet::take by key (the start address), then unreserve
take(ug, region) ==
    LET found == {g \in ug.inner : g.start = region.start}
    IN  IF found = None THEN [val |-> None, inner |-> ug.inner, holes |-> ug.holes]
        ELSE LET grant == CHOOSE g \in found : TRUE
             IN  [val |-> Some(grant),
                  inner |-> ug.inner \ {grant},
                  holes |-> unreserve(ug.holes, grant)]

\* ------------------------------------------------------------- inputs
PageAddrs == {p * PAGE_SIZE : p \in 0 .. UserPages}
\* grants as the Grant constructors build them: a page-aligned start, a size of
\* page_count pages (page_count > 0), placed in the user half
GrantInputs ==
    {r \in [start : PageAddrs, size : {n * PAGE_SIZE : n \in 1 .. UserPages}] :
        end_address(r) <= USER_END_OFFSET}
\* keys handed to take: any page or an unaligned address; the size is not the key
KeyInputs == {Region(s, PAGE_SIZE) : s \in PageAddrs \cup {1}}
SizeInputs == {p * PAGE_SIZE : p \in 0 .. UserPages} \cup {1}
AddrInputs == PageAddrs \cup {1}
AtSizeInputs == {0, 1, PAGE_SIZE, 2 * PAGE_SIZE, USER_END_OFFSET, WordMod - PAGE_SIZE}
FlagInputs == SUBSET {"MAP_FIXED", "MAP_FIXED_NOREPLACE"}
\* addresses handed to contains: every byte of the user half and its end
ContainsInputs == 0 .. USER_END_OFFSET
\* regions handed to conflicts: aligned or not, of one byte up to over two pages
ConflictInputs ==
    {Region(a, n) : a \in PageAddrs \cup {1}, n \in {1, PAGE_SIZE, 2 * PAGE_SIZE + 1}}

NoCall == [op |-> "none", addr |-> 0, size |-> 0, flags |-> {},
           ok |-> TRUE, val |-> None, err |-> "none", seq |-> << >>]
Call(op, addr, size, flags, res) ==
    [op |-> op, addr |-> addr, size |-> size, flags |-> flags,
     ok |-> res.ok, val |-> res.val, err |-> res.err, seq |-> << >>]
OptRes(opt) == [ok |-> opt # None, val |-> opt, err |-> "none"]

UG == [inner |-> inner, holes |-> holes]

\* ------------------------------------------------------------- actions
\* UserGrants::new
InitGrants ==
    /\ inner = {}
    /\ holes = (0 :> USER_END_OFFSET)
    /\ panicked = FALSE
    /\ ret = NoCall

\* insert(grant) when the assertion passes
Insert(g) ==
    /\ ~panicked
    /\ insert_asserts(inner, g)
    /\ inner' = insert(UG, g).inner
    /\ holes' = insert(UG, g).holes
    /\ ret' = Call("insert", g.start, g.size, {}, Ok(g))
    /\ UNCHANGED panicked

\* insert(grant) when the assertion fails: the kernel panics
InsertPanic(g) ==
    /\ ~panicked
    /\ ~insert_asserts(inner, g)
    /\ panicked' = TRUE
    /\ ret' = Call("insert", g.start, g.size, {}, Err("panic"))
    /\ UNCHANGED <<inner, holes>>

Take(r) ==
    /\ ~panicked
    /\ inner' = take(UG, r).inner
    /\ holes' = take(UG, r).holes
    /\ ret' = Call("take", r.start, r.size, {}, OptRes(take(UG, r).val))
    /\ UNCHANGED panicked

\* insert(g) directly followed by take(&g.region)
InsertTake(g) ==
    /\ ~panicked
    /\ insert_asserts(inner, g)
    /\ LET mid == insert(UG, g)
           out == take(mid, g)
       IN  /\ inner' = out.inner
           /\ holes' = out.holes
           /\ ret' = Call("insert_take", g.start, g.size, {}, OptRes(out.val))
    /\ UNCHANGED panicked

FindFree(size) ==
    /\ ~panicked
    /\ ret' = Call("find_free", 0, size, {}, OptRes(find_free(holes, size)))
    /\ UNCHANGED <<inner, holes, panicked>>

\* find_free_at; where address + size passes the word, the build decides
\* between the wrapped sum and the overflow panic
FindFreeAt(address, size, flags) ==
    /\ ~panicked
    /\ \/ /\ ret' = Call("find_free_at", address, size, flags,
                         find_free_at(inner, holes, address, size, flags))
          /\ UNCHANGED panicked
       \/ /\ address # 0 /\ add_overflows(address, size)
          /\ ret' = Call("find_free_at", address, size, flags, Err("panic"))
          /\ panicked' = TRUE
    /\ UNCHANGED <<inner, holes>>

Contains(address) ==
    /\ ~panicked
    /\ ret' = Call("contains", address, 0, {}, OptRes(contains(inner, address)))
    /\ UNCHANGED <<inner, holes, panicked>>

\* conflicts(requested), the iterator run to its end; seq = the grants it yields
Conflicts(requested) ==
    /\ ~panicked
    /\ ret' = [Call("conflicts", requested.start, requested.size, {}, OptRes(None))
               EXCEPT !.seq = conflicts(inner, requested)]
    /\ UNCHANGED <<inner, holes, panicked>>

\* ------------------------------------------------------------- kernel-half lock
\* const NO_PROCESSOR: usize = !0
NO_PROCESSOR == -1
Cpus == 0 .. NCpu - 1

NoAccess == [cpu |-> NO_PROCESSOR, via |-> "none", ro |-> FALSE, mutable |-> FALSE]

\* variant: every drop stores NO_PROCESSOR
drop_releases_always(prev_count) == prev_count >= 1
\* the drop stores NO_PROCESSOR when fetch_sub returned 1
drop_releases(prev_count) == prev_count = 1
\* variant: the first nested acquisition is not seen as reentrant
lock_inner_ret_late(prev_count) == prev_count > 1
\* lock_inner's return value, the guard's ro flag
lock_inner_ret(prev_count) == prev_count > 0
\* KernelMapper::get_mut: Some(&mut mapper) unless ro
get_mut(guard) == ~guard.ro
\* DerefMut for KernelMapper: &mut mapper
deref_mut(guard) == TRUE

RemoveAt(seq, i) == SubSeq(seq, 1, i - 1) \o SubSeq(seq, i + 1, Len(seq))

InitLock ==
    /\ LOCK_OWNER = NO_PROCESSOR
    /\ LOCK_COUNT = 0
    /\ pc = [c \in Cpus |-> "idle"]
    /\ guards = [c \in Cpus |-> << >>]
    /\ spun = [c \in Cpus |-> FALSE]
    /\ prevCount = [c \in Cpus |-> 0]
    /\ access = NoAccess

\* a hardware thread enters lock_inner
LockCall(c) ==
    /\ pc[c] = "idle"
    /\ Len(guards[c]) < MaxGuards
    /\ pc' = [pc EXCEPT ![c] = "cas"]
    /\ spun' = [spun EXCEPT ![c] = FALSE]
    /\ UNCHANGED <<LOCK_OWNER, LOCK_COUNT, guards, prevCount, access>>

\* compare_exchange_weak(NO_PROCESSOR, current) succeeds: Ok(_) => break
CasOk(c) ==
    /\ pc[c] = "cas"
    /\ LOCK_OWNER = NO_PROCESSOR
    /\ LOCK_OWNER' = c
    /\ pc' = [pc EXCEPT ![c] = "fetch_add"]
    /\ UNCHANGED <<LOCK_COUNT, guards, spun, prevCount, access>>

\* Err(id) if id == current_processor => break
CasOwned(c) ==
    /\ pc[c] = "cas"
    /\ LOCK_OWNER = c
    /\ pc' = [pc EXCEPT ![c] = "fetch_add"]
    /\ UNCHANGED <<LOCK_OWNER, LOCK_COUNT, guards, spun, prevCount, access>>

\* Err(_) => spin_loop(): another owner, or a spurious failure of the weak CAS
CasSpin(c) ==
    /\ pc[c] = "cas"
    /\ LOCK_OWNER # c
    /\ spun' = [spun EXCEPT ![c] = TRUE]
    /\ UNCHANGED <<LOCK_OWNER, LOCK_COUNT, pc, guards, prevCount, access>>

\* LOCK_COUNT.fetch_add(1); the guard is built with ro = prev_count > 0
FetchAdd(c) ==
    /\ pc[c] = "fetch_add"
    /\ prevCount' = [prevCount EXCEPT ![c] = LOCK_COUNT]
    /\ LOCK_COUNT' = LOCK_COUNT + 1
    /\ guards' = [guards EXCEPT ![c] = Append(@, [ro |-> lock_inner_ret(LOCK_COUNT)])]
    /\ pc' = [pc EXCEPT ![c] = "idle"]
    /\ UNCHANGED <<LOCK_OWNER, spun, access>>

\* Drop of the i-th live guard: LOCK_COUNT.fetch_sub(1)
DropFetchSub(c, i) ==
    /\ pc[c] = "idle"
    /\ i \in 1 .. Len(guards[c])
    /\ prevCount' = [prevCount EXCEPT ![c] = LOCK_COUNT]
    /\ LOCK_COUNT' = LOCK_COUNT - 1
    /\ guards' = [guards EXCEPT ![c] = RemoveAt(@, i)]
    /\ pc' = [pc EXCEPT ![c] = IF drop_releases(LOCK_COUNT) THEN "store" ELSE "idle"]
    /\ UNCHANGED <<LOCK_OWNER, spun, access>>

DropStoreSkipped(c) ==
    /\ pc[c] = "store"
    /\ pc' = [pc EXCEPT ![c] = "idle"]
    /\ UNCHANGED <<LOCK_OWNER, LOCK_COUNT, guards, spun, prevCount, access>>
\* Drop, second step: LOCK_OWNER.store(NO_PROCESSOR)
DropStore(c) ==
    /\ pc[c] = "store"
    /\ LOCK_OWNER' = NO_PROCESSOR
    /\ pc' = [pc EXCEPT ![c] = "idle"]
    /\ UNCHANGED <<LOCK_COUNT, guards, spun, prevCount, access>>

\* a holder asks its i-th guard for the mapper through get_mut
GetMut(c, i) ==
    /\ pc[c] = "idle"
    /\ i \in 1 .. Len(guards[c])
    /\ access' = [cpu |-> c, via |-> "get_mut", ro |-> guards[c][i].ro,
                  mutable |-> get_mut(guards[c][i])]
    /\ UNCHANGED <<LOCK_OWNER, LOCK_COUNT, pc, guards, spun, prevCount>>

\* a holder takes &mut *guard (DerefMut)
DerefMut(c, i) ==
    /\ pc[c] = "idle"
    /\ i \in 1 .. Len(guards[c])
    /\ access' = [cpu |-> c, via |-> "deref_mut", ro |-> guards[c][i].ro,
                  mutable |-> deref_mut(guards[c][i])]
    /\ UNCHANGED <<LOCK_OWNER, LOCK_COUNT, pc, guards, spun, prevCount>>

\* ------------------------------------------------------------- frames and page tables
\* the address spaces the Grant constructors are called on
Spaces == {"A", "B"}
\* the address space that try_clone creates
CloneSpace == "C"
AllSpaces == Spaces \cup {CloneSpace}
Frames == 1 .. NFrames
\* device memory: frames outside the frame allocator
DevBase == NFrames + 1
GPageAddrs == {p * PAGE_SIZE : p \in 0 .. GPages - 1}
PageFlagValues == {"r", "rw"}
\* flags given to zeroed (anonymous memory) and to physmap (device memory)
ZeroedFlags == {"rw"}
PhysmapFlags == {"r"}
DescValues == {None, Some("fd")}

MemSt == [table |-> table, used |-> used, mem |-> mem, badfree |-> badfree]

\* Page::next_by
next_by(va, index) == va + index * PAGE_SIZE

\* LockedAllocator::allocate of one frame
allocate_frame(st) ==
    IF Frames \ st.used = {} THEN None ELSE Some(Min(Frames \ st.used))
\* memory::deallocate_frames(frame, 1)
deallocate_frames(st, f) ==
    [st EXCEPT !.used = @ \ {f}, !.badfree = @ \/ (f \notin st.used)]

\* PageMapper: translate, map_phys, unmap_phys on leaf entries
translate(st, s, va) == st.table[s][va]
map_phys(st, s, va, f, fl) ==
    [st EXCEPT !.table[s][va] = Some([frame |-> f, flags |-> fl])]
unmap_phys(st, s, va) == [st EXCEPT !.table[s][va] = None]
\* PageMapper::map: a fresh zeroed frame from the allocator, mapped at va
map(st, s, va, fl) ==
    LET f == CHOOSE x \in allocate_frame(st) : TRUE
    IN  map_phys([st EXCEPT !.used = @ \cup {f}, !.mem[f] = 0], s, va, f, fl)

\* ------------------------------------------------------------- Grant
Grant(s, start, size, fl, mapped, owned, desc) ==
    [space |-> s, start |-> start, size |-> size, flags |-> fl,
     mapped |-> mapped, owned |-> owned, desc |-> desc]
GrantRegion(g) == Region(g.start, g.size)
\* Region::pages of a grant: the start addresses of its pages
pages(g) == {va \in GPageAddrs : g.start <= va /\ va < end_address(g)}

\* Drop for Grant: the assertion fails on a grant that is still mapped
grant_drop_panics(g) == g.mapped

\* result of a Grant call: the memory state after it and a Result<Grant>
Out(st, res) == [st |-> st, res |-> res]

\* Grant::zeroed; fuel = the number of map calls that succeed before one of
\* the page-table allocations fails
RECURSIVE zeroed_loop(_, _, _, _, _, _, _)
zeroed_loop(st, s, dst, index, page_count, fl, fuel) ==
    IF index = page_count THEN [st |-> st, ok |-> TRUE]
    ELSE IF fuel = 0 \/ allocate_frame(st) = None THEN [st |-> st, ok |-> FALSE]
    ELSE zeroed_loop(map(st, s, next_by(dst, index), fl), s, dst, index + 1,
                     page_count, fl, fuel - 1)

zeroed_unwinds(st, s, dst, page_count, fl, fuel) ==
    LET r == zeroed_loop(st, s, dst, 0, page_count, fl, fuel)
    IN  IF r.ok
        THEN Out(r.st, Ok(Grant(s, dst, page_count * PAGE_SIZE, fl, TRUE, TRUE, None)))
        ELSE Out(st, Err("ENOMEM"))
zeroed(st, s, dst, page_count, fl, fuel) ==
    LET r == zeroed_loop(st, s, dst, 0, page_count, fl, fuel)
    IN  IF r.ok
        THEN Out(r.st, Ok(Grant(s, dst, page_count * PAGE_SIZE, fl, TRUE, TRUE, None)))
        ELSE Out(r.st, Err("ENOMEM"))

\* Grant::physmap: map_phys(..).expect(..) panics when the mapping fails
RECURSIVE physmap_loop(_, _, _, _, _, _, _, _)
physmap_loop(st, s, phys, dst, index, page_count, fl, fuel) ==
    IF index = page_count THEN [st |-> st, ok |-> TRUE]
    ELSE IF fuel = 0 THEN [st |-> st, ok |-> FALSE]
    ELSE physmap_loop(map_phys(st, s, next_by(dst, index), phys + index, fl),
                      s, phys, dst, index + 1, page_count, fl, fuel - 1)

physmap(st, s, phys, dst, page_count, fl, fuel) ==
    LET r == physmap_loop(st, s, phys, dst, 0, page_count, fl, fuel)
    IN  IF r.ok
        THEN Out(r.st, Ok(Grant(s, dst, page_count * PAGE_SIZE, fl, TRUE, FALSE, None)))
        ELSE Out(r.st, Err("panic"))

\* Grant::copy_inner, the mapping loop: count = successful_count
RECURSIVE copy_loop(_, _, _, _, _, _, _, _, _, _)
copy_loop(st, src, src_base, dst, dst_base, index, page_count, fl, unmap, fuel) ==
    IF index = page_count THEN [st |-> st, count |-> index, panic |-> FALSE]
    ELSE LET src_page == next_by(src_base, index)
             found == translate(st, src, src_page)
         IN  IF found = None THEN [st |-> st, count |-> index, panic |-> TRUE]
             ELSE LET entry == CHOOSE e \in found : TRUE
                      st1 == IF unmap THEN unmap_phys(st, src, src_page) ELSE st
                  IN  IF fuel = 0 THEN [st |-> st1, count |-> index, panic |-> FALSE]
                      ELSE copy_loop(map_phys(st1, dst, next_by(dst_base, index),
                                              entry.frame, fl),
                                     src, src_base, dst, dst_base, index + 1,
                                     page_count, fl, unmap, fuel - 1)

\* Grant::copy_inner, the undo loop after a failed mapping
RECURSIVE copy_undo(_, _, _, _, _, _)
copy_undo(st, dst, dst_base, index, successful_count, owned) ==
    IF index = successful_count THEN st
    ELSE LET va == next_by(dst_base, index)
             entry == CHOOSE e \in translate(st, dst, va) : TRUE
             st1 == unmap_phys(st, dst, va)
             st2 == IF owned THEN deallocate_frames(st1, entry.frame) ELSE st1
         IN  copy_undo(st2, dst, dst_base, index + 1, successful_count, owned)

copy_inner(st, src, src_base, dst, dst_base, page_count, fl, desc, owned, unmap, fuel) ==
    LET r == copy_loop(st, src, src_base, dst, dst_base, 0, page_count, fl, unmap, fuel)
    IN  IF r.panic THEN Out(r.st, Err("panic"))
        ELSE IF r.count # page_count
        THEN Out(copy_undo(r.st, dst, dst_base, 0, r.count, owned), Err("ENOMEM"))
        ELSE Out(r.st, Ok(Grant(dst, dst_base, page_count * PAGE_SIZE, fl, TRUE,
                                owned, desc)))

\* Grant::borrow
borrow_owned(st, src, src_base, dst, dst_base, page_count, fl, desc, fuel) ==
    copy_inner(st, src, src_base, dst, dst_base, page_count, fl, desc,
               TRUE, FALSE, fuel)
borrow(st, src, src_base, dst, dst_base, page_count, fl, desc, fuel) ==
    copy_inner(st, src, src_base, dst, dst_base, page_count, fl, desc,
               FALSE, FALSE, fuel)

\* Grant::reborrow
reborrow(st, src_grant, dst, dst_base, fuel) ==
    borrow(st, src_grant.space, src_grant.start, dst, dst_base,
           src_grant.size \div PAGE_SIZE, src_grant.flags, src_grant.desc, fuel)

\* Grant::transfer: the source grant as it is when it is dropped at the end
transfer_src_after(src_grant) == [src_grant EXCEPT !.mapped = FALSE, !.desc = None]
transfer_not_owned(st, src_grant, dst, dst_base, fuel) ==
    IF ~src_grant.mapped THEN Out(st, Err("panic"))
    ELSE copy_inner(st, src_grant.space, src_grant.start, dst, dst_base,
                    src_grant.size \div PAGE_SIZE, src_grant.flags, src_grant.desc,
                    FALSE, TRUE, fuel)
transfer(st, src_grant, dst, dst_base, fuel) ==
    IF ~src_grant.mapped THEN Out(st, Err("panic"))
    ELSE copy_inner(st, src_grant.space, src_grant.start, dst, dst_base,
                    src_grant.size \div PAGE_SIZE, src_grant.flags, src_grant.desc,
                    src_grant.owned, TRUE, fuel)

\* Grant::unmap, one page: clear the leaf entry, free the frame of an owned grant
unmap_page_keeps_frame(st, g, va, entry) == unmap_phys(st, g.space, va)
unmap_page(st, g, va, entry) ==
    LET st1 == unmap_phys(st, g.space, va)
    IN  IF g.owned THEN deallocate_frames(st1, entry.frame) ELSE st1

\* Grant::unmap, the page loop
RECURSIVE unmap_loop(_, _, _)
unmap_loop(st, g, todo) ==
    IF todo = {} THEN [st |-> st, panic |-> FALSE]
    ELSE LET va == Min(todo)
             found == translate(st, g.space, va)
         IN  IF found = None THEN [st |-> st, panic |-> TRUE]
             ELSE unmap_loop(unmap_page(st, g, va, CHOOSE e \in found : TRUE),
                             g, todo \ {va})

\* Grant::unmap: self as it is when it is dropped at the end of the call
unmap_self_after_still_mapped(g) == [g EXCEPT !.desc = None]
unmap_self_after(g) == [g EXCEPT !.mapped = FALSE, !.desc = None]
\* Grant::unmap: file_desc of the UnmapResult in val
unmap(st, g) ==
    IF ~g.mapped THEN Out(st, Err("panic"))
    ELSE LET r == unmap_loop(st, g, pages(g))
         IN  IF r.panic THEN Out(r.st, Err("panic"))
             ELSE Out(r.st, [ok |-> TRUE, val |-> g.desc, err |-> "none"])

\* Region::before / Region::after and their assertions
before_asserts(r, region) == r.start <= region.start
before_unfiltered(r, region) == Some(between(r.start, region.start))
before(r, region) ==
    LET x == between(r.start, region.start)
    IN  IF is_empty(x) THEN None ELSE Some(x)
after_asserts_unchecked(r, region) == TRUE
after_asserts(r, region) == end_address(region) <= end_address(r)
after(r, region) ==
    LET x == between(end_address(region), end_address(r))
    IN  IF is_empty(x) THEN None ELSE Some(x)

\* Grant::extract: the assertions, then (before, middle, after)
extract_asserts(g, region) ==
    /\ region.start % PAGE_SIZE = 0
    /\ region.size % PAGE_SIZE = 0
    /\ before_asserts(g, region)
    /\ after_asserts(g, region)
extract(g, region) ==
    [before |-> {[g EXCEPT !.start = x.start, !.size = x.size] : x \in before(g, region)},
     middle |-> [g EXCEPT !.start = region.start, !.size = region.size],
     after |-> {[g EXCEPT !.start = x.start, !.size = x.size] : x \in after(g, region)}]

\* ------------------------------------------------------------- AddrSpace::try_clone
\* the copy of every page of a new owned grant through the physmap window
RECURSIVE copy_pages(_, _, _, _)
copy_pages(st, this, new, todo) ==
    IF todo = {} THEN [st |-> st, panic |-> FALSE]
    ELSE LET page == Min(todo)
             cur == translate(st, this, page)
             nw == translate(st, new, page)
         IN  IF cur = None \/ nw = None THEN [st |-> st, panic |-> TRUE]
             ELSE LET current_frame == (CHOOSE e \in cur : TRUE).frame
                      new_frame == (CHOOSE e \in nw : TRUE).frame
                  IN  copy_pages([st EXCEPT !.mem[new_frame] = st.mem[current_frame]],
                                 this, new, todo \ {page})

\* grants that try_clone passes over: the file-backed ones
clone_skips_none(grant) == FALSE
clone_skips(grant) == grant.desc # None

\* the new grant for one source grant: zeroed for an owned one, reborrow otherwise
clone_grant_shares(st, new, grant, fuel) == reborrow(st, grant, new, grant.start, fuel)
clone_grant(st, new, grant, fuel) ==
    IF grant.owned
    THEN zeroed(st, new, grant.start, grant.size \div PAGE_SIZE, grant.flags, fuel)
    ELSE reborrow(st, grant, new, grant.start, fuel)

\* the loop over self.grants in address order; err = "none" when it ran through
RECURSIVE try_clone_loop(_, _, _, _, _, _)
try_clone_loop(st, this, new, todo, ug, fuel) ==
    IF todo = {} THEN [st |-> st, ug |-> ug, err |-> "none"]
    ELSE LET grant == CHOOSE g \in todo : \A h \in todo : g.start <= h.start
             n == grant.size \div PAGE_SIZE
         IN  IF clone_skips(grant)
             THEN try_clone_loop(st, this, new, todo \ {grant}, ug, fuel)
             ELSE LET r == clone_grant(st, new, grant, fuel)
                  IN  IF ~r.res.ok THEN [st |-> r.st, ug |-> ug, err |-> r.res.err]
                      ELSE LET new_grant == CHOOSE g \in r.res.val : TRUE
                               c == IF grant.owned
                                    THEN copy_pages(r.st, this, new, pages(new_grant))
                                    ELSE [st |-> r.st, panic |-> FALSE]
                           IN  IF c.panic \/ ~insert_asserts(ug.inner, new_grant)
                               THEN [st |-> c.st, ug |-> ug, err |-> "panic"]
                               ELSE try_clone_loop(c.st, this, new, todo \ {grant},
                                                   insert(ug, new_grant), fuel - n)

\* UserGrants::new as a value
UserGrants_new == [inner |-> {}, holes |-> (0 :> USER_END_OFFSET)]

\* try_clone: an early return through `?` drops the new address space and with
\* it every grant already inserted into it
try_clone_drop_panics(ug) == \E g \in ug.inner : grant_drop_panics(g)
try_clone(st, this, new, grants, new_ok, fuel) ==
    IF ~new_ok THEN [st |-> st, ug |-> UserGrants_new, err |-> "ENOMEM"]
    ELSE LET r == try_clone_loop(st, this, new, grants, UserGrants_new, fuel)
         IN  IF r.err = "ENOMEM" /\ try_clone_drop_panics(r.ug)
             THEN [r EXCEPT !.err = "panic"]
             ELSE r

\* ------------------------------------------------------------- grant actions
NoGCall == [op |-> "none", ok |-> TRUE, err |-> "none", arg |-> {}, out |-> {},
            dropped |-> {}, fd |-> None, before |-> None, after |-> None,
            clone |-> UserGrants_new]
GCall(op, err, arg, out, dropped) ==
    [op |-> op, ok |-> err = "none", err |-> err, arg |-> arg, out |-> out,
     dropped |-> dropped, fd |-> None, before |-> None, after |-> None,
     clone |-> UserGrants_new]

\* one more call, up to MaxOps
Tick == nops < MaxOps /\ nops' = nops + 1

Apply(st) ==
    /\ table' = st.table
    /\ used' = st.used
    /\ mem' = st.mem
    /\ badfree' = st.badfree

\* the page_count pages from dst lie in the modelled window and are unmapped
PagesFree(s, dst, n) ==
    /\ dst + n * PAGE_SIZE <= GPages * PAGE_SIZE
    /\ \A i \in 0 .. n - 1 : table[s][next_by(dst, i)] = None
PageCounts == 1 .. GPages
Fuels == 0 .. GPages
Other(s) == CHOOSE t \in Spaces : t # s

InitMem ==
    /\ used = {}
    /\ badfree = FALSE
    /\ table = [s \in AllSpaces |-> [va \in GPageAddrs |-> None]]
    /\ mem = [f \in Frames |-> 0]
    /\ live = {}
    /\ gpanic = FALSE
    /\ gret = NoGCall
    /\ nops = 0

Zeroed(s, dst, n, fl, fuel) ==
    /\ ~gpanic
    /\ Tick
    /\ Cardinality(live) < MaxLive
    /\ PagesFree(s, dst, n)
    /\ LET r == zeroed(MemSt, s, dst, n, fl, fuel)
       IN  /\ Apply(r.st)
           /\ live' = live \cup r.res.val
           /\ gret' = GCall("zeroed", r.res.err, {}, r.res.val, {})
    /\ UNCHANGED gpanic

Physmap(s, dst, n, fl, fuel) ==
    /\ ~gpanic
    /\ Tick
    /\ Cardinality(live) < MaxLive
    /\ PagesFree(s, dst, n)
    /\ LET r == physmap(MemSt, s, DevBase, dst, n, fl, fuel)
       IN  /\ Apply(r.st)
           /\ live' = live \cup r.res.val
           /\ gpanic' = (r.res.err = "panic")
           /\ gret' = GCall("physmap", r.res.err, {}, r.res.val, {})

Borrow(src, src_base, dst_base, n, fl, desc, fuel) ==
    /\ ~gpanic
    /\ Tick
    /\ Cardinality(live) < MaxLive
    /\ src_base + n * PAGE_SIZE <= GPages * PAGE_SIZE
    /\ \A i \in 0 .. n - 1 : table[src][next_by(src_base, i)] # None
    /\ PagesFree(Other(src), dst_base, n)
    /\ LET r == borrow(MemSt, src, src_base, Other(src), dst_base, n, fl, desc, fuel)
       IN  /\ Apply(r.st)
           /\ live' = live \cup r.res.val
           /\ gpanic' = (r.res.err = "panic")
           /\ gret' = GCall("borrow", r.res.err,
                            {Grant(src, src_base, n * PAGE_SIZE, fl, TRUE, FALSE, desc)},
                            r.res.val, {})

Reborrow(g, dst_base, fuel) ==
    /\ ~gpanic
    /\ Tick
    /\ g.space \in Spaces
    /\ Cardinality(live) < MaxLive
    /\ PagesFree(Other(g.space), dst_base, g.size \div PAGE_SIZE)
    /\ LET r == reborrow(MemSt, g, Other(g.space), dst_base, fuel)
       IN  /\ Apply(r.st)
           /\ live' = live \cup r.res.val
           /\ gpanic' = (r.res.err = "panic")
           /\ gret' = GCall("reborrow", r.res.err, {g}, r.res.val, {})

\* borrow directly followed by unmap of the borrowed grant
BorrowUnmap(src, src_base, dst_base, n, fl, desc) ==
    /\ ~gpanic
    /\ Tick
    /\ src_base + n * PAGE_SIZE <= GPages * PAGE_SIZE
    /\ \A i \in 0 .. n - 1 : table[src][next_by(src_base, i)] # None
    /\ PagesFree(Other(src), dst_base, n)
    /\ LET r == borrow(MemSt, src, src_base, Other(src), dst_base, n, fl, desc, n)
           g == CHOOSE x \in r.res.val : TRUE
           u == unmap(r.st, g)
       IN  /\ Apply(u.st)
           /\ gpanic' = (u.res.err = "panic" \/ grant_drop_panics(unmap_self_after(g)))
           /\ gret' = [GCall("borrow_unmap", u.res.err, {}, {g}, {unmap_self_after(g)})
                       EXCEPT !.fd = u.res.val]
    /\ UNCHANGED live

Transfer(g, dst_base, fuel) ==
    /\ ~gpanic
    /\ Tick
    /\ g.space \in Spaces
    /\ PagesFree(Other(g.space), dst_base, g.size \div PAGE_SIZE)
    /\ LET r == transfer(MemSt, g, Other(g.space), dst_base, fuel)
       IN  /\ Apply(r.st)
           /\ live' = (live \ {g}) \cup r.res.val
           /\ gpanic' = (r.res.err = "panic" \/ grant_drop_panics(transfer_src_after(g)))
           /\ gret' = GCall("transfer", r.res.err, {g}, r.res.val,
                            {transfer_src_after(g)})

Unmap(g) ==
    /\ ~gpanic
    /\ Tick
    /\ LET r == unmap(MemSt, g)
       IN  /\ Apply(r.st)
           /\ live' = live \ {g}
           /\ gpanic' = (r.res.err = "panic" \/ grant_drop_panics(unmap_self_after(g)))
           /\ gret' = [GCall("unmap", r.res.err, {g}, {}, {unmap_self_after(g)})
                       EXCEPT !.fd = r.res.val]

\* zeroed directly followed by unmap of the new grant
ZeroedUnmap(s, dst, n, fl) ==
    /\ ~gpanic
    /\ Tick
    /\ PagesFree(s, dst, n)
    /\ LET r == zeroed(MemSt, s, dst, n, fl, n)
       IN  IF ~r.res.ok
           THEN /\ Apply(r.st)
                /\ gret' = GCall("zeroed_unmap", r.res.err, {}, {}, {})
                /\ UNCHANGED gpanic
           ELSE LET g == CHOOSE x \in r.res.val : TRUE
                    u == unmap(r.st, g)
                IN  /\ Apply(u.st)
                    /\ gpanic' = (u.res.err = "panic"
                                  \/ grant_drop_panics(unmap_self_after(g)))
                    /\ gret' = GCall("zeroed_unmap", u.res.err, {}, {g},
                                     {unmap_self_after(g)})
    /\ UNCHANGED live

\* a grant goes out of scope without unmap
DropGrant(g) ==
    /\ ~gpanic
    /\ Tick
    /\ live' = live \ {g}
    /\ gpanic' = grant_drop_panics(g)
    /\ gret' = GCall("drop", IF grant_drop_panics(g) THEN "panic" ELSE "none",
                     {g}, {}, {g})
    /\ UNCHANGED <<used, badfree, table, mem>>

ExtractRegions ==
    {Region(a, n * PAGE_SIZE) : a \in GPageAddrs \cup {1}, n \in PageCounts}
Pieces(x) == x.before \cup {x.middle} \cup x.after
Extract(g, region) ==
    /\ ~gpanic
    /\ Tick
    /\ IF extract_asserts(g, region)
       THEN /\ Cardinality((live \ {g}) \cup Pieces(extract(g, region))) <= MaxLive
            /\ live' = (live \ {g}) \cup Pieces(extract(g, region))
            /\ gret' = [GCall("extract", "none", {g}, {extract(g, region).middle}, {})
                        EXCEPT !.before = extract(g, region).before,
                               !.after = extract(g, region).after]
            /\ UNCHANGED gpanic
       ELSE /\ gpanic' = TRUE
            /\ gret' = GCall("extract", "panic", {g}, {}, {})
            /\ UNCHANGED live
    /\ UNCHANGED <<used, badfree, table, mem>>

\* user code stores to a writable page
WritePage(s, va) ==
    /\ ~gpanic
    /\ Tick
    /\ \E e \in table[s][va] :
          /\ e.flags = "rw"
          /\ e.frame \in Frames
          /\ mem[e.frame] = 0
          /\ mem' = [mem EXCEPT ![e.frame] = 1]
    /\ gret' = NoGCall
    /\ UNCHANGED <<used, badfree, table, live, gpanic>>

SpaceGrants(s) == {g \in live : g.space = s}
Fresh(s) == SpaceGrants(s) = {} /\ \A va \in GPageAddrs : table[s][va] = None
TryClone(this, new_ok, fuel) ==
    /\ ~gpanic
    /\ Tick
    /\ SpaceGrants(this) # {}
    /\ Fresh(CloneSpace)
    /\ LET r == try_clone(MemSt, this, CloneSpace, SpaceGrants(this), new_ok, fuel)
       IN  /\ Apply(r.st)
           /\ live' = IF r.err = "none" THEN live \cup r.ug.inner ELSE live
           /\ gpanic' = (r.err = "panic")
           /\ gret' = [GCall("try_clone", r.err, SpaceGrants(this), r.ug.inner, {})
                       EXCEPT !.clone = r.ug]

\* ------------------------------------------------------------- region algebra
RegionInputs == [start : 0 .. MaxRegion, size : 0 .. MaxRegion]
RegionCall(op, b, r) ==
    [op |-> op, b |-> b, r |-> r, before |-> None, middle |-> None, after |-> None]
NoRegionCall == RegionCall("none", FALSE, Region(0, 0))
\* the value of eg where extract is not exercised
NoGrant == Grant("A", 0, 0, "r", FALSE, FALSE, None)

Collides ==
    /\ rout' = RegionCall("collides", collides(ra, rb), Region(0, 0))
    /\ UNCHANGED <<ra, rb, eg>>

Occupies ==
    /\ rout' = RegionCall("occupies", occupies(ra, rb), Region(0, 0))
    /\ UNCHANGED <<ra, rb, eg>>

Intersect ==
    /\ rout' = RegionCall("intersect", ~is_empty(intersect(ra, rb)), intersect(ra, rb))
    /\ UNCHANGED <<ra, rb, eg>>

\* Region::before: b tells whether the assertion passed
Before ==
    /\ rout' = [RegionCall("before", before_asserts(ra, rb), Region(0, 0))
                EXCEPT !.before = IF before_asserts(ra, rb) THEN before(ra, rb) ELSE None]
    /\ UNCHANGED <<ra, rb, eg>>

\* Region::after: b tells whether the assertion passed
After ==
    /\ rout' = [RegionCall("after", after_asserts(ra, rb), Region(0, 0))
                EXCEPT !.after = IF after_asserts(ra, rb) THEN after(ra, rb) ELSE None]
    /\ UNCHANGED <<ra, rb, eg>>

\* ------------------------------------------------------------- extract as a function
XPageAddrs == {p * PAGE_SIZE : p \in 0 .. XPages - 1}
\* grants as the constructors return them, inside a window of XPages pages
XGrantInputs ==
    {g \in {Grant("A", a, n * PAGE_SIZE, fl, TRUE, owned, desc) :
               a \in XPageAddrs, n \in 1 .. XPages, fl \in PageFlagValues,
               owned \in BOOLEAN, desc \in DescValues} :
        end_address(g) <= XPages * PAGE_SIZE}
\* regions handed to extract: aligned or not, empty or not, inside the grant or not
XRegionInputs ==
    {Region(a, n) : a \in XPageAddrs \cup {1}, n \in {k * PAGE_SIZE : k \in 0 .. XPages} \cup {1}}

\* eg.extract(rb); b = the assertions passed
ExtractCall ==
    /\ rout' = IF extract_asserts(eg, rb)
               THEN [op |-> "extract", b |-> TRUE, r |-> rb,
                     before |-> extract(eg, rb).before,
                     middle |-> Some(extract(eg, rb).middle),
                     after |-> extract(eg, rb).after]
               ELSE RegionCall("extract", FALSE, rb)
    /\ UNCHANGED <<ra, rb, eg>>

\* ------------------------------------------------------------- UnmapResult
UnmapResult(file_desc) == [file_desc |-> file_desc]

\* Drop for UnmapResult: the close calls it makes
unmap_result_drop_never_closes(u) == 0
unmap_result_drop_closes(u) == IF u.file_desc # None THEN 1 ELSE 0

InitResult ==
    /\ ures = None
    /\ held = None
    /\ closes = 0

\* grants that unmap is called on: one mapped grant in one of the spaces
UnmapGrantInputs ==
    {g \in {Grant(s, a, n * PAGE_SIZE, fl, TRUE, owned, desc) :
               s \in Spaces, a \in GPageAddrs, n \in PageCounts, fl \in PageFlagValues,
               owned \in BOOLEAN, desc \in DescValues} :
        /\ end_address(g) <= GPages * PAGE_SIZE
        /\ g.owned => g.size \div PAGE_SIZE <= NFrames}
\* the frame behind page va of g: allocator frames for an owned grant, device
\* frames otherwise
FrameOf(g, va) ==
    (IF g.owned THEN 1 ELSE DevBase) + (va - g.start) \div PAGE_SIZE
\* the page tables in which exactly the pages of g are mapped
TableOf(g) ==
    [s \in AllSpaces |-> [va \in GPageAddrs |->
        IF s = g.space /\ va \in pages(g)
        THEN Some([frame |-> FrameOf(g, va), flags |-> g.flags])
        ELSE None]]

\* unmap(g), the UnmapResult kept by the caller
UnmapCall(g) ==
    /\ ures = None
    /\ Unmap(g)
    /\ ures' = Some(UnmapResult(unmap(MemSt, g).res.val))
    /\ UNCHANGED <<held, closes>>

\* the caller moves file_desc out of the UnmapResult
TakeFileDesc ==
    /\ \E u \in ures :
          /\ u.file_desc # None
          /\ held' = u.file_desc
          /\ ures' = Some(UnmapResult(None))
    /\ UNCHANGED closes

\* the UnmapResult goes out of scope
DropResult ==
    /\ \E u \in ures : closes' = closes + unmap_result_drop_closes(u)
    /\ ures' = None
    /\ UNCHANGED held

\* ------------------------------------------------------------- memory-map normalizer
\* extents given to init (scaled): the real-mode window, the kernel image, and
\* empty stack, env, acpi and initfs blobs
real_base == 0
real_end == PAGE_SIZE
kernel_base == 2 * PAGE_SIZE
kernel_size == 1
kernel_size_aligned == ((kernel_size + (PAGE_SIZE - 1)) \div PAGE_SIZE) * PAGE_SIZE
kernel_end == kernel_base + kernel_size_aligned
\* (base, end) of real mode, kernel, stack, env, acpi, initfs, in the order of
\* the checks
ReservedExtents ==
    <<[base |-> real_base, end |-> real_end],
      [base |-> kernel_base, end |-> kernel_end],
      [base |-> 0, end |-> 0], [base |-> 0, end |-> 0],
      [base |-> 0, end |-> 0], [base |-> 0, end |-> 0]>>
\* the physmap window (scaled; 1 GiB in the kernel)
physmap_size == 6 * PAGE_SIZE

MemoryArea(base, size) == [base |-> base, size |-> size]
BootloaderMemoryEntry(base, size, kind) == [base |-> base, size |-> size, kind |-> kind]

\* new_base after the six reserved-range checks; sum = base + size
RECURSIVE avoid_reserved(_, _, _, _)
avoid_reserved(base, sum, new_base, i) ==
    IF i > Len(ReservedExtents) THEN new_base
    ELSE avoid_reserved(base, sum,
                        IF base < ReservedExtents[i].end /\ sum > ReservedExtents[i].base
                        THEN cmp_max(new_base, ReservedExtents[i].end)
                        ELSE new_base,
                        i + 1)

\* one area of the table against the current entry: the overlap test
area_overlaps(other, base, size) ==
    base < wrapping_add(other.base, other.size) /\ wrapping_add(base, size) > other.base
\* the union written over the area that overlaps
area_union(other, base, size) ==
    LET new_base == cmp_min(base, other.base)
    IN  MemoryArea(new_base,
                   saturating_sub(cmp_max(wrapping_add(base, size),
                                          wrapping_add(other.base, other.size)),
                                  new_base))

\* "Combine areas that overlap": the loop over the areas emitted so far
RECURSIVE combine(_, _, _, _, _)
combine(tbl, count, other_i, base, size) ==
    IF other_i >= count THEN [AREAS |-> tbl, size |-> size]
    ELSE IF area_overlaps(tbl[other_i], base, size)
         THEN combine([tbl EXCEPT ![other_i] = area_union(tbl[other_i], base, size)],
                      count, other_i + 1, base, 0)
         ELSE combine(tbl, count, other_i + 1, base, size)

\* an addition of the loop body passes the word (a panic where the build checks)
entry_overflows(entry, tbl, count) ==
    LET base_offset == (PAGE_SIZE - (entry.base % PAGE_SIZE)) % PAGE_SIZE
        base == wrapping_add(entry.base, base_offset)
        size == (entry.size - base_offset) - ((entry.size - base_offset) % PAGE_SIZE)
    IN  /\ entry.kind = "Free"
        /\ base_offset <= entry.size
        /\ \/ add_overflows(entry.base, base_offset)
           \/ /\ add_overflows(base, size)
              /\ \/ \E i \in 1 .. Len(ReservedExtents) : base < ReservedExtents[i].end
                 \/ base < physmap_size

\* one iteration of the loop over the firmware entries
normalize_entry(entry, tbl, count) ==
    LET base_offset == (PAGE_SIZE - (entry.base % PAGE_SIZE)) % PAGE_SIZE
        base1 == wrapping_add(entry.base, base_offset)
        size1 == (entry.size - base_offset) - ((entry.size - base_offset) % PAGE_SIZE)
        new_base == avoid_reserved(base1, wrapping_add(base1, size1), base1, 1)
        base == new_base
        size2 == IF new_base # base1
                 THEN saturating_sub(wrapping_add(base1, size1), new_base)
                 ELSE size1
        size3 == IF base >= physmap_size THEN 0
                 ELSE IF wrapping_add(base, size2) > physmap_size
                      THEN saturating_sub(physmap_size, base)
                      ELSE size2
        c == combine(tbl, count, 0, base, size3)
    IN  IF entry.kind # "Free" \/ base_offset > entry.size
        THEN [AREAS |-> tbl, area_i |-> count, panic |-> FALSE]
        ELSE IF c.size = 0
             THEN [AREAS |-> c.AREAS, area_i |-> count, panic |-> FALSE]
             ELSE IF count >= AreaSlots
                  THEN [AREAS |-> c.AREAS, area_i |-> count, panic |-> TRUE]
                  ELSE [AREAS |-> [c.AREAS EXCEPT ![count] = MemoryArea(base, c.size)],
                        area_i |-> count + 1, panic |-> FALSE]

\* rmm::areas(): the first AREA_COUNT entries of the table
areas == [i \in 0 .. AREA_COUNT - 1 |-> AREAS[i]]

\* firmware entries: free ones, aligned or not, small or reaching past the
\* word, and one that is not free
BootBases == {1, PAGE_SIZE, 3 * PAGE_SIZE, 4 * PAGE_SIZE, 5 * PAGE_SIZE}
BootSizes == {PAGE_SIZE, 3 * PAGE_SIZE, WordMod - PAGE_SIZE}
EntryInputs ==
    {BootloaderMemoryEntry(b, n, "Free") : b \in BootBases, n \in BootSizes}
    \cup {BootloaderMemoryEntry(3 * PAGE_SIZE, PAGE_SIZE, "Reserved")}
MapInputs == UNION {[1 .. n -> EntryInputs] : n \in 0 .. MaxEntries}

\* the statics before init runs
InitBoot ==
    /\ bootloader_areas = << >>
    /\ AREAS = [i \in 0 .. AreaSlots - 1 |-> MemoryArea(0, 0)]
    /\ AREA_COUNT = 0
    /\ area_i = 0
    /\ boot_pos = 0
    /\ init_panic = FALSE
    /\ overflow_checks = FALSE

\* the loop body of init on the next firmware entry
InitEntry ==
    /\ ~init_panic
    /\ boot_pos < Len(bootloader_areas)
    /\ LET entry == bootloader_areas[boot_pos + 1]
           r == normalize_entry(entry, AREAS, area_i)
       IN  IF overflow_checks /\ entry_overflows(entry, AREAS, area_i)
           THEN init_panic' = TRUE /\ UNCHANGED <<AREAS, area_i>>
           ELSE /\ AREAS' = r.AREAS
                /\ area_i' = r.area_i
                /\ init_panic' = r.panic
    /\ boot_pos' = boot_pos + 1
    /\ UNCHANGED <<bootloader_areas, AREA_COUNT, overflow_checks>>

\* after the loop: AREA_COUNT is written
InitFinish ==
    /\ ~init_panic
    /\ boot_pos = Len(bootloader_areas)
    /\ AREA_COUNT' = area_i
    /\ boot_pos' = boot_pos + 1
    /\ UNCHANGED <<bootloader_areas, AREAS, area_i, init_panic, overflow_checks>>

\* ------------------------------------------------------------- boot mapper
\* the physmap window starts above the user half; the kernel image is linked
\* above the window
PHYS_OFFSET == physmap_size
KERNEL_OFFSET == PHYS_OFFSET + physmap_size
phys_to_virt(phys) == phys + PHYS_OFFSET

\* the virtual pages inner can map
KernelVirt ==
    {phys_to_virt(p * PAGE_SIZE) : p \in 0 .. (physmap_size \div PAGE_SIZE) - 1}
    \cup {KERNEL_OFFSET + i * PAGE_SIZE : i \in 0 .. KernelPages - 1}

\* PageFlags::new(), .execute(true), .write(true)
PageFlags_new == {}
execute(flags) == flags \cup {"execute"}
write(flags) == flags \cup {"write"}

page_flags(img, virt) ==
    IF virt >= img.text_start /\ virt < img.text_end THEN execute(PageFlags_new)
    ELSE IF virt >= img.rodata_start /\ virt < img.rodata_end THEN PageFlags_new
    ELSE write(PageFlags_new)

\* PageMapper::map_phys on the table under construction
boot_map_phys(tbl, virt, phys, flags) ==
    [tbl EXCEPT ![virt] = Some([phys |-> phys, flags |-> flags])]

\* the loop "for i in 0..size / PAGE_SIZE" of the area mapping and of
\* identity_map: each page at phys_to_virt(phys) with the flags of that address
RECURSIVE identity_map(_, _, _, _, _)
identity_map(tbl, img, base, size_aligned, i) ==
    IF i >= size_aligned \div PAGE_SIZE THEN tbl
    ELSE LET phys == base + i * PAGE_SIZE
             virt == phys_to_virt(phys)
             flags == page_flags(img, virt)
         IN  identity_map(boot_map_phys(tbl, virt, phys, flags), img, base,
                          size_aligned, i + 1)

\* "Map all physical areas at PHYS_OFFSET"
RECURSIVE map_areas(_, _, _, _)
map_areas(tbl, img, mapped_areas, k) ==
    IF k > Len(mapped_areas) THEN tbl
    ELSE map_areas(identity_map(tbl, img, mapped_areas[k].base, mapped_areas[k].size, 0),
                   img, mapped_areas, k + 1)

\* "Map kernel at KERNEL_OFFSET and identity map too": the second map_phys
\* is given the flags computed for the first
RECURSIVE map_kernel(_, _, _)
map_kernel(tbl, img, i) ==
    IF i >= img.kernel_size_aligned \div PAGE_SIZE THEN tbl
    ELSE LET phys == img.kernel_base + i * PAGE_SIZE
             virt == KERNEL_OFFSET + i * PAGE_SIZE
             flags == page_flags(img, virt)
             t1 == boot_map_phys(tbl, virt, phys, flags)
             t2 == boot_map_phys(t1, phys_to_virt(phys), phys, flags)
         IN  map_kernel(t2, img, i + 1)

\* kernel images: text first, then rodata, then data, linked at KERNEL_OFFSET
KernelImage(base, n, t, r, mapped_areas, blobs) ==
    [kernel_base |-> base, kernel_size_aligned |-> n * PAGE_SIZE,
     text_start |-> KERNEL_OFFSET,
     text_end |-> KERNEL_OFFSET + t * PAGE_SIZE,
     rodata_start |-> KERNEL_OFFSET + t * PAGE_SIZE,
     rodata_end |-> KERNEL_OFFSET + (t + r) * PAGE_SIZE,
     areas |-> mapped_areas, blobs |-> blobs]
\* stack, env, acpi, initfs as (base, size_aligned)
BlobInputs ==
    {<<[base |-> sb, size |-> sn], [base |-> 0, size |-> 0],
       [base |-> 0, size |-> PAGE_SIZE], [base |-> 0, size |-> 0]>> :
        sb \in {5 * PAGE_SIZE}, sn \in {0, PAGE_SIZE}}
MappedAreaInputs ==
    {<< >>, <<MemoryArea(4 * PAGE_SIZE, PAGE_SIZE)>>,
     <<MemoryArea(3 * PAGE_SIZE, PAGE_SIZE), MemoryArea(4 * PAGE_SIZE, 2 * PAGE_SIZE)>>}
ImageInputs ==
    {KernelImage(base, n, t, r, a, b) :
        base \in {PAGE_SIZE, 2 * PAGE_SIZE}, n \in 2 .. KernelPages,
        t \in 1 .. 2, r \in 0 .. 1, a \in MappedAreaInputs, b \in BlobInputs}

NoImage == KernelImage(0, 0, 0, 0, << >>, << >>)
\* inner has not run
InitMap ==
    /\ image = NoImage
    /\ ktable = [v \in KernelVirt |-> None]
    /\ map_pc = 0

\* inner: the loop over the areas
MapAreas ==
    /\ map_pc = 0
    /\ ktable' = map_areas(ktable, image, image.areas, 1)
    /\ map_pc' = 1
    /\ UNCHANGED image

\* inner: the loop over the pages of the kernel image
MapKernel ==
    /\ map_pc = 1
    /\ ktable' = map_kernel(ktable, image, 0)
    /\ map_pc' = 2
    /\ UNCHANGED image

\* inner: identity_map of blob k (stack, env, acpi, initfs in this order)
IdentityMap(k) ==
    /\ map_pc = k + 1
    /\ k \in DOMAIN image.blobs
    /\ ktable' = identity_map(ktable, image, image.blobs[k].base, image.blobs[k].size, 0)
    /\ map_pc' = map_pc + 1
    /\ UNCHANGED image

\* ------------------------------------------------------------- specifications
\* Region values outside the region algebra's own specification
InitRegion ==
    /\ ra = Region(0, 0)
    /\ rb = Region(0, 0)
    /\ eg = NoGrant
    /\ rout = NoRegionCall

Init == InitGrants /\ InitLock /\ InitMem /\ InitRegion /\ InitResult /\ InitBoot /\ InitMap

Next ==
    \/ \E g \in GrantInputs : Insert(g) /\ UNCHANGED <<lockVars, memVars, regionVars, resultVars, bootVars, mapVars>>
    \/ \E g \in GrantInputs : InsertPanic(g) /\ UNCHANGED <<lockVars, memVars, regionVars, resultVars, bootVars, mapVars>>
    \/ \E r \in KeyInputs : Take(r) /\ UNCHANGED <<lockVars, memVars, regionVars, resultVars, bootVars, mapVars>>
    \/ \E g \in GrantInputs : InsertTake(g) /\ UNCHANGED <<lockVars, memVars, regionVars, resultVars, bootVars, mapVars>>
    \/ \E n \in SizeInputs : FindFree(n) /\ UNCHANGED <<lockVars, memVars, regionVars, resultVars, bootVars, mapVars>>
    \/ \E a \in AddrInputs, n \in AtSizeInputs, f \in FlagInputs :
          FindFreeAt(a, n, f) /\ UNCHANGED <<lockVars, memVars, regionVars, resultVars, bootVars, mapVars>>
    \/ \E a \in ContainsInputs : Contains(a) /\ UNCHANGED <<lockVars, memVars, regionVars, resultVars, bootVars, mapVars>>
    \/ \E r \in ConflictInputs :
          Conflicts(r) /\ UNCHANGED <<lockVars, memVars, regionVars, resultVars, bootVars, mapVars>>

Spec == Init /\ [][Next]_vars

NextLock ==
    \/ \E c \in Cpus : LockCall(c) /\ UNCHANGED <<grantVars, memVars, regionVars, resultVars, bootVars, mapVars>>
    \/ \E c \in Cpus : CasOk(c) /\ UNCHANGED <<grantVars, memVars, regionVars, resultVars, bootVars, mapVars>>
    \/ \E c \in Cpus : CasOwned(c) /\ UNCHANGED <<grantVars, memVars, regionVars, resultVars, bootVars, mapVars>>
    \/ \E c \in Cpus : CasSpin(c) /\ UNCHANGED <<grantVars, memVars, regionVars, resultVars, bootVars, mapVars>>
    \/ \E c \in Cpus : FetchAdd(c) /\ UNCHANGED <<grantVars, memVars, regionVars, resultVars, bootVars, mapVars>>
    \/ \E c \in Cpus, i \in 1 .. MaxGuards : DropFetchSub(c, i) /\ UNCHANGED <<grantVars, memVars, regionVars, resultVars, bootVars, mapVars>>
    \/ \E c \in Cpus : DropStore(c) /\ UNCHANGED <<grantVars, memVars, regionVars, resultVars, bootVars, mapVars>>
    \/ \E c \in Cpus, i \in 1 .. MaxGuards : GetMut(c, i) /\ UNCHANGED <<grantVars, memVars, regionVars, resultVars, bootVars, mapVars>>
    \/ \E c \in Cpus, i \in 1 .. MaxGuards : DerefMut(c, i) /\ UNCHANGED <<grantVars, memVars, regionVars, resultVars, bootVars, mapVars>>

SpecLock == Init /\ [][NextLock]_vars

\* fair scheduling of the hardware threads: a thread inside lock_inner or
\* inside drop takes its next atomic step, and a compare-exchange that can
\* succeed does not fail spuriously for ever. Calling lock and dropping a guard
\* are the callers' choices and carry no fairness.
LockFairness ==
    \A c \in Cpus :
        /\ WF_vars(CasOk(c) /\ UNCHANGED <<grantVars, memVars, regionVars, resultVars, bootVars, mapVars>>)
        /\ WF_vars(CasOwned(c) /\ UNCHANGED <<grantVars, memVars, regionVars, resultVars, bootVars, mapVars>>)
        /\ WF_vars(FetchAdd(c) /\ UNCHANGED <<grantVars, memVars, regionVars, resultVars, bootVars, mapVars>>)
        /\ WF_vars(DropStore(c) /\ UNCHANGED <<grantVars, memVars, regionVars, resultVars, bootVars, mapVars>>)

SpecLockFair == Init /\ [][NextLock]_vars /\ LockFairness

NextGrant ==
    \/ \E s \in Spaces, dst \in GPageAddrs, n \in PageCounts, fl \in ZeroedFlags,
          fuel \in Fuels :
          fuel <= n /\ Zeroed(s, dst, n, fl, fuel)
          /\ UNCHANGED <<grantVars, lockVars, regionVars, resultVars, bootVars, mapVars>>
    \/ \E s \in Spaces, dst \in GPageAddrs, n \in PageCounts, fl \in PhysmapFlags,
          fuel \in Fuels :
          fuel <= n /\ Physmap(s, dst, n, fl, fuel)
          /\ UNCHANGED <<grantVars, lockVars, regionVars, resultVars, bootVars, mapVars>>
    \/ \E src \in Spaces, src_base \in GPageAddrs, dst_base \in GPageAddrs,
          n \in PageCounts, fl \in PageFlagValues, desc \in DescValues, fuel \in Fuels :
          fuel <= n /\ Borrow(src, src_base, dst_base, n, fl, desc, fuel)
          /\ UNCHANGED <<grantVars, lockVars, regionVars, resultVars, bootVars, mapVars>>
    \/ \E g \in live, dst_base \in GPageAddrs, fuel \in Fuels :
          fuel <= g.size \div PAGE_SIZE /\ Reborrow(g, dst_base, fuel)
          /\ UNCHANGED <<grantVars, lockVars, regionVars, resultVars, bootVars, mapVars>>
    \/ \E src \in Spaces, src_base \in GPageAddrs, dst_base \in GPageAddrs,
          n \in PageCounts, fl \in PageFlagValues, desc \in DescValues :
          BorrowUnmap(src, src_base, dst_base, n, fl, desc)
          /\ UNCHANGED <<grantVars, lockVars, regionVars, resultVars, bootVars, mapVars>>
    \/ \E g \in live, dst_base \in GPageAddrs, fuel \in Fuels :
          fuel <= g.size \div PAGE_SIZE /\ Transfer(g, dst_base, fuel)
          /\ UNCHANGED <<grantVars, lockVars, regionVars, resultVars, bootVars, mapVars>>
    \/ \E g \in live : Unmap(g) /\ UNCHANGED <<grantVars, lockVars, regionVars, resultVars, bootVars, mapVars>>
    \/ \E s \in Spaces, dst \in GPageAddrs, n \in PageCounts, fl \in ZeroedFlags :
          ZeroedUnmap(s, dst, n, fl) /\ UNCHANGED <<grantVars, lockVars, regionVars, resultVars, bootVars, mapVars>>
    \/ \E g \in live : DropGrant(g) /\ UNCHANGED <<grantVars, lockVars, regionVars, resultVars, bootVars, mapVars>>
    \/ \E g \in live, region \in ExtractRegions :
          Extract(g, region) /\ UNCHANGED <<grantVars, lockVars, regionVars, resultVars, bootVars, mapVars>>
    \/ \E s \in AllSpaces, va \in GPageAddrs :
          WritePage(s, va) /\ UNCHANGED <<grantVars, lockVars, regionVars, resultVars, bootVars, mapVars>>
    \/ \E this \in Spaces, new_ok \in BOOLEAN, fuel \in Fuels :
          TryClone(this, new_ok, fuel) /\ UNCHANGED <<grantVars, lockVars, regionVars, resultVars, bootVars, mapVars>>

SpecGrant == Init /\ [][NextGrant]_vars

\* the region algebra on every pair of regions up to MaxRegion
InitRegionInputs ==
    /\ InitGrants /\ InitLock /\ InitMem /\ InitResult /\ InitBoot /\ InitMap
    /\ ra \in RegionInputs
    /\ rb \in RegionInputs
    /\ eg = NoGrant
    /\ rout = NoRegionCall

NextRegion ==
    \/ Collides /\ UNCHANGED <<grantVars, lockVars, memVars, resultVars, bootVars, mapVars>>
    \/ Occupies /\ UNCHANGED <<grantVars, lockVars, memVars, resultVars, bootVars, mapVars>>
    \/ Intersect /\ UNCHANGED <<grantVars, lockVars, memVars, resultVars, bootVars, mapVars>>
    \/ Before /\ UNCHANGED <<grantVars, lockVars, memVars, resultVars, bootVars, mapVars>>
    \/ After /\ UNCHANGED <<grantVars, lockVars, memVars, resultVars, bootVars, mapVars>>

SpecRegion == InitRegionInputs /\ [][NextRegion]_vars

\* extract on every grant and region of the window
InitExtractInputs ==
    /\ InitGrants /\ InitLock /\ InitMem /\ InitResult /\ InitBoot /\ InitMap
    /\ ra = Region(0, 0)
    /\ rb \in XRegionInputs
    /\ eg \in XGrantInputs
    /\ rout = NoRegionCall

NextExtract == ExtractCall /\ UNCHANGED <<grantVars, lockVars, memVars, resultVars, bootVars, mapVars>>

SpecExtract == InitExtractInputs /\ [][NextExtract]_vars

\* unmap and the fate of its UnmapResult, from every single mapped grant
InitUnmapInputs ==
    /\ InitGrants /\ InitLock /\ InitRegion /\ InitResult /\ InitBoot /\ InitMap
    /\ live \in {{g} : g \in UnmapGrantInputs}
    /\ table = TableOf(CHOOSE g \in live : TRUE)
    /\ used = UNION {{FrameOf(g, va) : va \in pages(g)} : g \in {x \in live : x.owned}}
    /\ badfree = FALSE
    /\ mem = [f \in Frames |-> 0]
    /\ gpanic = FALSE
    /\ gret = NoGCall
    /\ nops = 0

NextResult ==
    \/ \E g \in live : UnmapCall(g) /\ UNCHANGED <<grantVars, lockVars, regionVars, bootVars, mapVars>>
    \/ TakeFileDesc /\ UNCHANGED <<grantVars, lockVars, memVars, regionVars, bootVars, mapVars>>
    \/ DropResult /\ UNCHANGED <<grantVars, lockVars, memVars, regionVars, bootVars, mapVars>>

SpecResult == InitUnmapInputs /\ [][NextResult]_vars

\* init on every firmware map of up to MaxEntries entries, in either build
InitBootInputs ==
    /\ InitGrants /\ InitLock /\ InitMem /\ InitRegion /\ InitResult /\ InitMap
    /\ bootloader_areas \in MapInputs
    /\ AREAS = [i \in 0 .. AreaSlots - 1 |-> MemoryArea(0, 0)]
    /\ AREA_COUNT = 0
    /\ area_i = 0
    /\ boot_pos = 0
    /\ init_panic = FALSE
    /\ overflow_checks \in BOOLEAN

NextBoot ==
    \/ InitEntry /\ UNCHANGED <<grantVars, lockVars, memVars, regionVars, resultVars, mapVars>>
    \/ InitFinish /\ UNCHANGED <<grantVars, lockVars, memVars, regionVars, resultVars, mapVars>>

SpecBoot == InitBootInputs /\ [][NextBoot]_vars

\* inner on every kernel image, area list and blob placement of the inputs
InitMapInputs ==
    /\ InitGrants /\ InitLock /\ InitMem /\ InitRegion /\ InitResult /\ InitBoot
    /\ image \in ImageInputs
    /\ ktable = [v \in KernelVirt |-> None]
    /\ map_pc = 0

NextMap ==
    \/ MapAreas /\ UNCHANGED <<grantVars, lockVars, memVars, regionVars, resultVars, bootVars>>
    \/ MapKernel /\ UNCHANGED <<grantVars, lockVars, memVars, regionVars, resultVars, bootVars>>
    \/ \E k \in 1 .. 4 :
          IdentityMap(k) /\ UNCHANGED <<grantVars, lockVars, memVars, regionVars, resultVars, bootVars>>

SpecMap == InitMapInputs /\ [][NextMap]_vars

\* ------------------------------------------------------------- properties
Bytes(r) == r.start .. (r.start + r.size - 1)
Overlaps(a, b) == Bytes(a) \cap Bytes(b) # {}
HoleRegions == {Region(k, holes[k]) : k \in DOMAIN holes}
UserBytes == 0 .. (USER_END_OFFSET - 1)

\* C1: no two grants of inner overlap, in every state reached by insert and
\* take; an insert of a grant that overlaps a stored grant panics and leaves
\* the grant set and the hole map as they were.
C1_GrantsNeverOverlap ==
    /\ [](\A a \in inner : \A b \in inner : a # b => ~Overlaps(a, b))
    /\ [][\A g \in GrantInputs :
            (/\ ret'.op = "insert"
             /\ ret'.addr = g.start /\ ret'.size = g.size
             /\ \E e \in inner : Overlaps(e, g))
            => (panicked' /\ ~ret'.ok /\ inner' = inner /\ holes' = holes)]_vars

\* an insert panicked on a grant that starts in a hole and runs into a grant,
\* with two grants stored
C1_Witness ==
    /\ panicked /\ ret.op = "insert"
    /\ Cardinality(inner) >= 2
    /\ \A e \in inner : ret.addr \notin Bytes(e)
    /\ \E e \in inner : Overlaps(e, Region(ret.addr, ret.size))

\* C2: the holes are pairwise disjoint, disjoint from every grant, and holes
\* and grants together cover exactly [0, USER_END_OFFSET); a single two-page
\* grant in the middle leaves exactly the hole below it and the hole above it.
C2_HolesPartitionUserSpace ==
    /\ \A x \in HoleRegions : \A y \in HoleRegions : x # y => ~Overlaps(x, y)
    /\ \A x \in HoleRegions : \A g \in inner : ~Overlaps(x, round(g))
    /\ UNION {Bytes(x) : x \in HoleRegions} \cup UNION {Bytes(round(g)) : g \in inner}
          = UserBytes
    /\ \A g \in inner :
          (inner = {g} /\ g.start > 0 /\ end_address(g) < USER_END_OFFSET)
          => holes = (0 :> g.start)
                     @@ (end_address(g) :> USER_END_OFFSET - end_address(g))

\* one two-page grant in the middle of the user half, after an insert
C2_Witness ==
    /\ ret.op = "insert" /\ ret.ok
    /\ \E g \in inner :
          /\ inner = {g} /\ g.start > 0 /\ g.size = 2 * PAGE_SIZE
          /\ end_address(g) < USER_END_OFFSET
          /\ DOMAIN holes = {0, end_address(g)}

\* C3: the hole map is canonical: every hole has size > 0 and no hole ends
\* where another hole starts.
C3_HolesCanonical ==
    /\ \A k \in DOMAIN holes : holes[k] > 0
    /\ \A k \in DOMAIN holes : \A j \in DOMAIN holes : k + holes[k] # j

\* a take freed a grant that had a hole directly before and directly after it,
\* while another grant stays stored
C3_Witness ==
    /\ ret.op = "take" /\ ret.ok /\ inner # {}
    /\ \E g \in ret.val : \E k \in DOMAIN holes :
          k < g.start /\ k + holes[k] > end_address(g)

\* C4: insert(g) followed by take(&g.region) returns g and leaves the grant
\* set and the hole map equal to what they were before the insert.
C4_InsertTakeRoundTrip ==
    [][ret'.op = "insert_take"
         => /\ ret'.val = Some(Region(ret'.addr, ret'.size))
            /\ inner' = inner
            /\ holes' = holes]_vars

\* the round trip ran on a container that holds grants and several holes
C4_Witness ==
    /\ ret.op = "insert_take" /\ ret.ok
    /\ inner # {}
    /\ Cardinality(DOMAIN holes) >= 2

\* C5: find_free(n) returns None or a region of size n that is disjoint from
\* every grant and lies inside [PAGE_SIZE, USER_END_OFFSET).
C5_FindFreeDisjoint ==
    \A n \in 0 .. (USER_END_OFFSET + 1) :
        \A r \in find_free(holes, n) :
            /\ r.size = n
            /\ \A g \in inner : ~Overlaps(r, round(g))
            /\ PAGE_SIZE <= r.start
            /\ end_address(r) <= USER_END_OFFSET

\* find_free returned a region above a stored grant while page 0 is free
C5_Witness ==
    /\ ret.op = "find_free" /\ ret.ok /\ ret.size > 0
    /\ 0 \in DOMAIN holes
    /\ \E r \in ret.val : \E g \in inner : g.start < r.start

\* C6: for a page-aligned non-zero address with addr + size <= USER_END_OFFSET
\* whose interval overlaps a grant, find_free_at fails with EEXIST under
\* MAP_FIXED_NOREPLACE and with EOPNOTSUPP under MAP_FIXED alone, and never
\* returns a region that overlaps a grant.
C6_FindFreeAtOverlapRejected ==
    (/\ ret.op = "find_free_at"
     /\ ret.addr # 0 /\ ret.addr % PAGE_SIZE = 0
     /\ ret.addr + ret.size <= USER_END_OFFSET
     /\ \E g \in inner : Overlaps(g, Region(ret.addr, ret.size)))
    => /\ "MAP_FIXED_NOREPLACE" \in ret.flags => ret.err = "EEXIST"
       /\ ("MAP_FIXED" \in ret.flags /\ "MAP_FIXED_NOREPLACE" \notin ret.flags)
             => ret.err = "EOPNOTSUPP"
       /\ \A r \in ret.val : \A g \in inner : ~Overlaps(g, r)

\* C7: find_free is first-fit in ascending address order with the null page
\* reserved: the result starts at max(hole_start, PAGE_SIZE) of the lowest hole
\* whose adjusted size is >= size, None only if no hole qualifies; on empty
\* grants a four-page request gets the region starting at PAGE_SIZE.
Adjusted(k) == IF k = 0 THEN holes[k] - PAGE_SIZE ELSE holes[k]
Qualifying(n) == {k \in DOMAIN holes : Adjusted(k) >= n}
C7_FindFreeFirstFit ==
    /\ \A n \in 0 .. (USER_END_OFFSET + 1) :
          find_free(holes, n) =
             IF Qualifying(n) = {} THEN None
             ELSE LET lowest == CHOOSE k \in Qualifying(n) :
                                   \A j \in Qualifying(n) : k <= j
                  IN  {Region(IF lowest > PAGE_SIZE THEN lowest ELSE PAGE_SIZE, n)}
    /\ inner = {} => find_free(holes, 4 * PAGE_SIZE)
                        = {Region(PAGE_SIZE, 4 * PAGE_SIZE)}

\* find_free skipped a hole that is too small and took a higher one
C7_Witness ==
    /\ ret.op = "find_free" /\ ret.ok
    /\ \E r \in ret.val : \E k \in DOMAIN holes :
          k > 0 /\ k < r.start /\ holes[k] < ret.size

\* C8: all live KernelMapper guards belong to one hardware thread, the owner;
\* a thread other than the owner is never past the loop of lock_inner while a
\* guard of the owner is alive.
C8_LockMutualExclusion ==
    /\ \A c \in Cpus : \A d \in Cpus :
          (c # d /\ guards[c] # << >>) => guards[d] = << >>
    /\ \A c \in Cpus : guards[c] # << >> => LOCK_OWNER = c
    /\ \A c \in Cpus : \A d \in Cpus :
          (c # d /\ pc[c] = "fetch_add") => guards[d] = << >>

\* one thread holds nested guards while another one spins in lock_inner
C8_Witness ==
    \E c \in Cpus : \E d \in Cpus :
        /\ c # d
        /\ Len(guards[c]) >= 2
        /\ pc[d] = "cas" /\ spun[d]

\* C9: a thread that holds a guard acquires again without spinning; the new
\* guard has ro = TRUE exactly when the count before the fetch_add was >= 1,
\* and ro = FALSE when the thread held no guard.
C9_LockReentrancy ==
    [][\A c \in Cpus :
          (pc[c] = "fetch_add" /\ pc'[c] = "idle")
          => LET g == guards'[c][Len(guards'[c])]
             IN  /\ g.ro <=> (LOCK_COUNT >= 1)
                 /\ guards[c] = << >> => ~g.ro
                 /\ guards[c] # << >> => (g.ro /\ ~spun[c])]_vars

\* a thread holds a first guard with ro = FALSE and a nested one with
\* ro = TRUE, taken without spinning
C9_Witness ==
    \E c \in Cpus :
        /\ pc[c] = "idle" /\ ~spun[c]
        /\ Len(guards[c]) = 2
        /\ ~guards[c][1].ro /\ guards[c][2].ro

\* C10: a guard with ro = TRUE gives no mutable access to the page mapper,
\* through any accessor.
C10_ReadOnlyGuardNotMutable ==
    access.ro => ~access.mutable

\* C11: every Grant returned by zeroed, physmap, borrow, reborrow, transfer or
\* extract has mapped = TRUE and keeps it as long as it exists; dropping a Grant
\* whose mapped flag is TRUE panics; the Grant consumed by a successful unmap or
\* transfer is dropped with mapped = FALSE and without panic.
C11_MappedLifecycle ==
    /\ \A g \in live : g.mapped
    /\ (gret.op \in {"zeroed", "physmap", "borrow", "reborrow", "transfer", "extract"}
        /\ gret.ok)
       => \A g \in gret.out \cup gret.before \cup gret.after : g.mapped
    /\ gret.op = "drop" => \A g \in gret.arg : gpanic <=> g.mapped
    /\ (gret.op \in {"unmap", "transfer"} /\ gret.ok)
       => (~gpanic /\ \A d \in gret.dropped : ~d.mapped)

\* a grant was unmapped and dropped without panic while another grant stays
\* mapped
C11_Witness ==
    /\ gret.op = "unmap" /\ gret.ok /\ ~gpanic
    /\ \E g \in gret.arg : g.mapped
    /\ \E d \in gret.dropped : ~d.mapped
    /\ live # {}

C13_BorrowLeavesSource ==
    /\ []((gret.op \in {"borrow", "reborrow", "borrow_unmap"} /\ gret.ok)
          => \A g \in gret.out : ~g.owned)
    /\ [][(gret'.op \in {"borrow", "reborrow"} /\ gret'.ok)
          => (/\ used' = used
              /\ \A g \in gret'.arg : table'[g.space] = table[g.space])]_vars
    /\ [][(gret'.op = "unmap" /\ gret'.ok /\ \A g \in gret'.arg : ~g.owned)
          => (/\ used' = used
              /\ \A g \in gret'.arg : \A s \in AllSpaces : \A va \in GPageAddrs :
                    (s # g.space \/ va \notin pages(g))
                    => table'[s][va] = table[s][va])]_vars
    /\ [][(gret'.op = "borrow_unmap" /\ gret'.ok)
          => (used' = used /\ table' = table /\ badfree' = badfree)]_vars

\* a borrow of pages backed by allocator frames was made and unmapped again
C13_Witness ==
    /\ gret.op = "borrow_unmap" /\ gret.ok /\ ~gpanic
    /\ \E g \in gret.out : \E s \in Spaces \ {g.space} : \E va \in GPageAddrs :
          \E e \in table[s][va] : e.frame \in used

\* C14: a successful transfer leaves no page of the source grant mapped in the
\* source table, maps the same frames in the same order at the destination,
\* returns a mapped grant with the source's flags, owned flag and desc_opt, and
\* drops the source grant with mapped = FALSE and desc_opt = None.
C14_TransferMoves ==
    [][(gret'.op = "transfer" /\ gret'.ok)
       => (/\ gret'.out # {}
           /\ \A d \in gret'.dropped : ~d.mapped /\ d.desc = None
           /\ \A g \in gret'.arg : \A n \in gret'.out :
                 /\ \A va \in pages(g) : table'[g.space][va] = None
                 /\ \A i \in 0 .. (g.size \div PAGE_SIZE) - 1 :
                       table'[n.space][next_by(n.start, i)]
                          = {[frame |-> e.frame, flags |-> g.flags] :
                                e \in table[g.space][next_by(g.start, i)]}
                 /\ \A i \in 0 .. (g.size \div PAGE_SIZE) - 1 :
                       table[g.space][next_by(g.start, i)] # None
                 /\ n.mapped /\ n.size = g.size /\ n.space # g.space
                 /\ n.flags = g.flags /\ n.owned = g.owned /\ n.desc = g.desc)]_vars

\* an owned two-page grant was transferred into the other address space
C14_Witness ==
    /\ gret.op = "transfer" /\ gret.ok /\ ~gpanic
    /\ \E g \in gret.arg : g.owned /\ g.size = 2 * PAGE_SIZE
    /\ \E n \in gret.out : n \in live /\ n.owned

\* the UserGrants invariants on a container value
HolesOf(ug) == {Region(k, ug.holes[k]) : k \in DOMAIN ug.holes}
UserGrantsInvariant(ug) ==
    /\ \A a \in ug.inner : \A b \in ug.inner : a # b => ~Overlaps(a, b)
    /\ \A x \in HolesOf(ug) : \A y \in HolesOf(ug) : x # y => ~Overlaps(x, y)
    /\ \A x \in HolesOf(ug) : \A g \in ug.inner : ~Overlaps(x, round(g))
    /\ UNION {Bytes(x) : x \in HolesOf(ug)} \cup UNION {Bytes(round(g)) : g \in ug.inner}
          = UserBytes
    /\ \A k \in DOMAIN ug.holes : ug.holes[k] > 0
    /\ \A k \in DOMAIN ug.holes : \A j \in DOMAIN ug.holes : k + ug.holes[k] # j
CloneOf(g) == [g EXCEPT !.space = CloneSpace]

C16_CloneFrames ==
    (gret.op = "try_clone" /\ gret.ok)
    => \A g \in gret.arg : g.desc = None =>
          \A va \in pages(g) :
             /\ table[g.space][va] # None
             /\ table[CloneSpace][va] # None
             /\ \A e \in table[g.space][va] : \A c \in table[CloneSpace][va] :
                   IF g.owned
                   THEN c.frame # e.frame /\ c.frame \in Frames
                        /\ mem[c.frame] = mem[e.frame]
                   ELSE c.frame = e.frame

\* a space holding an owned grant with a written page and a grant that is not
\* owned was cloned
C16_Witness ==
    /\ gret.op = "try_clone" /\ gret.ok /\ ~gpanic
    /\ \E g \in gret.arg : /\ g.owned
                           /\ \E va \in pages(g) : \E e \in table[g.space][va] :
                                 mem[e.frame] = 1
    /\ \E g \in gret.arg : ~g.owned /\ g.desc = None

\* C17: try_clone never panics on allocation failure: when a grant constructor
\* fails with ENOMEM, also after grants were inserted into the clone, the call
\* returns Err.
C17_TryCloneNeverPanics ==
    gret.op = "try_clone" => (~gpanic /\ gret.err \in {"none", "ENOMEM"})

\* the pieces of the last extract call
XPieces == rout.before \cup rout.middle \cup rout.after

\* C18: for every grant and every page-aligned region contained in it,
\* extract returns (before, middle, after) whose regions are pairwise disjoint
\* and together are exactly the grant's region, with middle = the region,
\* before = None iff the region starts at the grant's start, after = None iff
\* it ends at the grant's end; each piece has the grant's flags, owned, mapped
\* and desc_opt.
C18_ExtractSplits ==
    rout.op = "extract"
    => (/\ rout.b <=> (/\ rb.start % PAGE_SIZE = 0 /\ rb.size % PAGE_SIZE = 0
                       /\ eg.start <= rb.start
                       /\ end_address(rb) <= end_address(eg))
        /\ rout.b =>
             (/\ \E m \in rout.middle : GrantRegion(m) = rb
              /\ Cardinality(rout.middle) = 1
              /\ \A x \in XPieces : \A y \in XPieces : x # y => ~Overlaps(x, y)
              /\ UNION {Bytes(x) : x \in XPieces} = Bytes(eg)
              /\ (rout.before = None) <=> (rb.start = eg.start)
              /\ (rout.after = None) <=> (end_address(rb) = end_address(eg))
              /\ \A x \in XPieces :
                    /\ x.flags = eg.flags /\ x.owned = eg.owned
                    /\ x.mapped = eg.mapped /\ x.desc = eg.desc
                    /\ x.space = eg.space))

\* the middle page of a three-page file-backed grant was extracted
C18_Witness ==
    /\ rout.op = "extract" /\ rout.b
    /\ rout.before # None /\ rout.after # None
    /\ eg.size = 3 * PAGE_SIZE /\ eg.desc # None
    /\ \E m \in rout.middle : m.size = PAGE_SIZE

\* C19: a.collides(b) is true iff a.start <= b.start < a.end, so [0,2)
\* collides with the one-byte regions at 0 and 1 and not with those at 2 and 3;
\* occupies(b) is the same test on a with its size rounded up to whole pages.
C19_CollidesIffStartInside ==
    /\ rout.op = "collides"
       => (rout.b <=> (ra.start <= rb.start /\ rb.start < end_address(ra)))
    /\ rout.op = "occupies"
       => (rout.b <=> (ra.start <= rb.start /\ rb.start < end_address(round(ra))))

Covering(a) == {g \in inner : g.start <= a /\ a < g.start + round_up_pages(g.size)}

\* C21: contains(a) returns the grant g with
\* g.start <= a < g.start + round_up_pages(g.size) when there is one, for every
\* byte of the grant including the last, and None when no grant covers a.
C21_ContainsFindsCoveringGrant ==
    ret.op = "contains" => ret.val = Covering(ret.addr)

\* C22: for a requested region of size > 0, conflicts yields exactly the grants
\* whose region intersects the requested region, in ascending address order.
C22_ConflictsExact ==
    (ret.op = "conflicts" /\ ret.size > 0)
    => (/\ {ret.seq[i] : i \in 1 .. Len(ret.seq)}
              = {g \in inner : Overlaps(round(g), Region(ret.addr, ret.size))}
        /\ \A i \in 1 .. Len(ret.seq) : \A j \in 1 .. Len(ret.seq) :
              i < j => ret.seq[i].start < ret.seq[j].start)

\* C23: for every non-zero addr and every size of the machine word,
\* find_free_at returns EINVAL whenever addr + size > USER_END_OFFSET or addr is
\* not page-aligned, whatever the flags and the grants.
C23_FindFreeAtRejectsOutOfRange ==
    (/\ ret.op = "find_free_at" /\ ret.addr # 0
     /\ (ret.addr + ret.size > USER_END_OFFSET \/ ret.addr % PAGE_SIZE # 0))
    => ret.err = "EINVAL"

\* C24: a zero-size request is rejected: find_free_at(addr, 0, flags) returns
\* EINVAL for every addr and flags.
C24_ZeroSizeRejected ==
    (ret.op = "find_free_at" /\ ret.size = 0) => ret.err = "EINVAL"

\* C25: page 0 can be mapped explicitly: when page 0 is free, find_free_at with
\* address 0 and MAP_FIXED or MAP_FIXED_NOREPLACE returns a region that starts
\* at address 0; without such a flag no returned region includes page 0.
C25_NullPageExplicitOnly ==
    /\ (/\ ret.op = "find_free_at" /\ ret.addr = 0
        /\ ret.flags # {}
        /\ ret.size > 0 /\ ret.size <= PAGE_SIZE
        /\ \A g \in inner : ~Overlaps(round(g), Region(0, PAGE_SIZE)))
       => (ret.ok /\ \A r \in ret.val : r.start = 0)
    /\ (ret.op = "find_free" \/ (ret.op = "find_free_at" /\ ret.flags = {}))
       => \A r \in ret.val : ~Overlaps(r, Region(0, PAGE_SIZE))

\* C26: the file reference of an unmapped grant is neither leaked nor closed
\* twice. unmap moves desc_opt out of the grant into the UnmapResult; at every
\* moment the reference is in exactly one place (the result, the caller's
\* hands, or closed); once the result is dropped, the descriptor was closed
\* exactly once if the caller never took file_desc, and not at all if the
\* caller took it first
FileRefs(opt) == Cardinality(opt)
C26_FileRefClosedOnce ==
    (gret.op = "unmap" /\ gret.ok) =>
        \A g \in gret.arg :
            /\ \A d \in gret.dropped : d.desc = None
            /\ closes <= 1
            /\ FileRefs(g.desc)
                 = closes + FileRefs(held)
                   + Cardinality({u \in ures : u.file_desc # None})
            /\ (ures = None /\ held = None) => closes = FileRefs(g.desc)
            /\ (ures = None /\ held # None) => closes = 0
C26_Witness ==
    /\ gret.op = "unmap" /\ gret.ok
    /\ \E g \in gret.arg : g.desc # None
    /\ ures = None
    /\ held = None
    /\ closes = 1
C26_WitnessTaken ==
    /\ gret.op = "unmap" /\ gret.ok
    /\ ures = None
    /\ held # None
    /\ closes = 0

\* init has run to its end: the loop is over and AREA_COUNT is written
InitDone == boot_pos = Len(bootloader_areas) + 1
AreaEnd(a) == a.base + a.size
AreasOverlap(a, b) == a.base < AreaEnd(b) /\ b.base < AreaEnd(a)

\* C27: whatever the firmware map, the areas exposed by areas() after init are
\* pairwise non-overlapping
C27_AreasDisjoint ==
    InitDone =>
        \A i, j \in DOMAIN areas : i # j => ~AreasOverlap(areas[i], areas[j])

\* C28: whatever the order of the firmware entries, the areas exposed by
\* areas() after init are sorted by ascending base address
C28_AreasSorted ==
    InitDone =>
        \A i, j \in DOMAIN areas : i < j => areas[i].base <= areas[j].base

\* C29: normalization never aborts: the loop of init never panics, whatever the
\* entries' base, size and kind, and the emitted areas stay within the table
C29_NormalizationNeverAborts ==
    /\ ~init_panic
    /\ area_i <= AreaSlots

\* the same three on maps that stay inside the word and build without
\* overflow checks: the failures do not depend on wrapping
NoWrap ==
    /\ ~overflow_checks
    /\ \A k \in DOMAIN bootloader_areas :
           bootloader_areas[k].base + bootloader_areas[k].size < WordMod
DisjointWithoutWrap == NoWrap => C27_AreasDisjoint
SortedWithoutWrap == NoWrap => C28_AreasSorted
NoAbortWithoutWrap == NoWrap => C29_NormalizationNeverAborts
\* the overflow panic alone: a map of one entry, so the table cannot fill
NoAbortOneEntry == Len(bootloader_areas) <= 1 => ~init_panic

\* b is a sub-interval of a
SubInterval(a, b) == a.start <= b.start /\ b.start + b.size <= a.start + a.size
\* the part of a before b.start and the part after b's end, None when empty
PartBefore(a, b) ==
    IF b.start = a.start THEN None ELSE Some(Region(a.start, b.start - a.start))
PartAfter(a, b) ==
    IF b.start + b.size = a.start + a.size THEN None
    ELSE Some(Region(b.start + b.size, (a.start + a.size) - (b.start + b.size)))

\* C30 as stated: before(b) and after(b) both panic whenever b is not a
\* sub-interval of self, and for a sub-interval they return the part of self
\* before b.start and the part after b's end
C30_PanicUnlessSubInterval ==
    /\ rout.op = "before" =>
           /\ ~SubInterval(ra, rb) => ~rout.b
           /\ SubInterval(ra, rb) => rout.b /\ rout.before = PartBefore(ra, rb)
    /\ rout.op = "after" =>
           /\ ~SubInterval(ra, rb) => ~rout.b
           /\ SubInterval(ra, rb) => rout.b /\ rout.after = PartAfter(ra, rb)

\* C30 amended: before(b) panics exactly when b starts before self, after(b)
\* panics exactly when b ends after self; for a sub-interval b neither panics
\* and they return the part of self before b.start and the part after b's end
\* (None when empty)
C30_PanicByOwnBound ==
    /\ rout.op = "before" =>
           /\ ~rout.b <=> rb.start < ra.start
           /\ SubInterval(ra, rb) => rout.b /\ rout.before = PartBefore(ra, rb)
    /\ rout.op = "after" =>
           /\ ~rout.b <=> rb.start + rb.size > ra.start + ra.size
           /\ SubInterval(ra, rb) => rout.b /\ rout.after = PartAfter(ra, rb)
C30_Witness ==
    /\ rout.op = "after"
    /\ SubInterval(ra, rb)
    /\ ra.start < rb.start
    /\ rout.b
    /\ rout.after # None
\* before on an operand that ends after self: no panic
C30_WitnessNoPanic ==
    /\ rout.op = "before"
    /\ ~SubInterval(ra, rb)
    /\ rout.b

\* C31: every region that find_free_at returns with Ok (the requested one or
\* the find_free fallback) is disjoint from every existing grant and lies
\* inside [0, USER_END_OFFSET), so insert's no-conflict assertion holds for it
C31_FindFreeAtResultInsertable ==
    (ret.op = "find_free_at" /\ ret.ok) =>
        \A r \in ret.val :
            /\ \A g \in inner : ~Overlaps(g, r)
            /\ r.start + r.size <= USER_END_OFFSET
\* the same for the results that are not the requested region (address 0, or
\* the fallback taken when the start address lies in a grant)
FallbackInsertable ==
    (ret.op = "find_free_at" /\ ret.ok) =>
        \A r \in ret.val :
            r.start # ret.addr =>
                /\ \A g \in inner : ~Overlaps(g, r)
                /\ r.start + r.size <= USER_END_OFFSET

\* no hardware thread is inside lock_inner or inside a guard's drop
LockQuiet == \A c \in Cpus : pc[c] = "idle"
NoGuards == \A c \in Cpus : guards[c] = << >>

\* C32: at every atomic step LOCK_COUNT > 0 implies LOCK_OWNER # NO_PROCESSOR;
\* the owner is reset to NO_PROCESSOR only by the drop that took the count from
\* 1 to 0; once every guard has been dropped the count is 0 and the owner is
\* NO_PROCESSOR
C32_CountImpliesOwner ==
    /\ [](LOCK_COUNT > 0 => LOCK_OWNER # NO_PROCESSOR)
    /\ []((NoGuards /\ LockQuiet) => (LOCK_COUNT = 0 /\ LOCK_OWNER = NO_PROCESSOR))
    /\ [][(LOCK_OWNER # NO_PROCESSOR /\ LOCK_OWNER' = NO_PROCESSOR)
            => /\ LOCK_COUNT = 0
               /\ pc[LOCK_OWNER] = "store"
               /\ prevCount[LOCK_OWNER] = 1]_vars
\* a thread has dropped its last guard (the count went from 1 to 0) and the
\* lock is free again
C32_Witness ==
    /\ NoGuards /\ LockQuiet
    /\ LOCK_COUNT = 0 /\ LOCK_OWNER = NO_PROCESSOR
    /\ \E c \in Cpus : prevCount[c] = 1

\* every hardware thread other than d holds no guard and is outside lock_inner
\* and drop
OthersQuiet(d) == \A c \in Cpus \ {d} : guards[c] = << >> /\ pc[c] = "idle"

\* C33: under fair scheduling, if the other hardware threads eventually have
\* dropped all their guards and stop acquiring, a thread in the loop of
\* lock_inner eventually leaves it with the lock; and the loop never waits on
\* a free lock: a thread at the compare-exchange with LOCK_OWNER =
\* NO_PROCESSOR leads to the lock being owned
C33_SpinnerAcquires ==
    /\ \A d \in Cpus :
           (<>[]OthersQuiet(d)) => [](pc[d] = "cas" => <>(pc[d] = "fetch_add"))
    /\ \A d \in Cpus :
           (pc[d] = "cas" /\ LOCK_OWNER = NO_PROCESSOR) ~> (LOCK_OWNER # NO_PROCESSOR)
\* a thread that spun while another one held the lock is past the loop after
\* the holder dropped its last guard
C33_Witness ==
    \E d \in Cpus :
        /\ pc[d] = "fetch_add" /\ spun[d]
        /\ LOCK_OWNER = d
        /\ OthersQuiet(d)
        /\ \E c \in Cpus \ {d} : prevCount[c] = 1

\* the live guards with ro = FALSE, over all hardware threads
WritableGuards ==
    {x \in Cpus \X (1 .. MaxGuards) :
        x[2] <= Len(guards[x[1]]) /\ ~guards[x[1]][x[2]].ro}

\* C34: at any time, over all hardware threads and whatever the order in which
\* a thread drops its nested guards, at most one live guard has ro = FALSE
C34_OneWritableGuard == Cardinality(WritableGuards) <= 1
\* a thread dropped its outer guard first and acquired again: it holds two
\* guards, both with ro = TRUE
C34_Witness ==
    \E c \in Cpus :
        /\ Len(guards[c]) = 2
        /\ guards[c][1].ro /\ guards[c][2].ro

\* area a shares a byte with the reserved extent x
IntersectsReserved(a, x) == a.size > 0 /\ a.base < x.end /\ AreaEnd(a) > x.base

\* C35: no area exposed by areas() after init intersects a reserved range
\* (low memory, kernel, stack, env, ACPI, initfs), also after overlapping
\* entries were merged
C35_AreasAvoidReserved ==
    InitDone =>
        \A i \in DOMAIN areas : \A k \in DOMAIN ReservedExtents :
            ~IntersectsReserved(areas[i], ReservedExtents[k])
\* the same on maps whose entries stay inside the machine word
AvoidReservedWithoutWrap == NoWrap => C35_AreasAvoidReserved
\* an entry that reached into the kernel image was moved past it and merged
\* with an area emitted before
MovedAndMerged ==
    /\ InitDone /\ NoWrap
    /\ Len(bootloader_areas) = 2 /\ AREA_COUNT = 1
    /\ bootloader_areas[2].base < kernel_end
    /\ areas[0].size > bootloader_areas[1].size

\* the page at va of space s is inside a live grant
Tracked(s, va) == \E g \in live : g.space = s /\ va \in pages(g)
\* what a failed zeroed(dst, page_count) in space s leaves behind when the
\* allocation for page k failed: pages 0 .. k-1 of the range are mapped with
\* the requested flags to k distinct frames taken from the allocator by this
\* call, the pages from k on are not mapped, nothing else changed, and no
\* grant was created
ZeroedLeaves(s, dst, page_count, fl, k) ==
    /\ \A i \in 0 .. page_count - 1 :
           LET va == next_by(dst, i)
           IN  IF i < k
               THEN \E e \in table'[s][va] :
                        /\ e.flags = fl
                        /\ e.frame \in used' \ used
                        /\ mem'[e.frame] = 0
               ELSE table'[s][va] = None
    /\ Cardinality(used' \ used) = k
    /\ used \subseteq used'
    /\ \A t \in AllSpaces : \A va \in GPageAddrs :
           (t # s \/ va \notin {next_by(dst, i) : i \in 0 .. page_count - 1})
               => table'[t][va] = table[t][va]
    /\ live' = live
    /\ gret'.out = {}

\* C36: when Grant::zeroed fails to map page k because the allocation fails, it
\* returns ENOMEM without unwinding: the k pages mapped before stay mapped at
\* dst with their frames allocated, and no Grant tracks them (k is the number
\* of allocations that succeed: the fuel, or the free frames if fewer)
C36_ZeroedFailureLeaks ==
    [][\A s \in Spaces, dst \in GPageAddrs, n \in PageCounts, fl \in ZeroedFlags,
          fuel \in Fuels :
          (Zeroed(s, dst, n, fl, fuel) /\ ~gret'.ok)
          => /\ gret'.err = "ENOMEM"
             /\ LET k == cmp_min(fuel, Cardinality(Frames \ used))
                IN  /\ k < n
                    /\ ZeroedLeaves(s, dst, n, fl, k)
                    /\ \A i \in 0 .. k - 1 : ~Tracked(s, next_by(dst, i))']_vars
\* zeroed has just failed after mapping a page: a frame is allocated and a
\* page is mapped while no grant exists
C36_Witness ==
    /\ gret.op = "zeroed" /\ gret.err = "ENOMEM"
    /\ nops = 1
    /\ live = {}
    /\ used # {}
    /\ \E s \in Spaces, va \in GPageAddrs : table[s][va] # None

\* C37: when Grant::transfer of an owned source grant returns Err(Enomem), no
\* frame is lost and no mapping is orphaned: every frame that backed the source
\* grant is back in the frame allocator, no page of the source grant is still
\* mapped in the source mapper, and no page is mapped at the destination
C37_TransferFailureCleansUp ==
    [][\A g \in live, dst_base \in GPageAddrs, fuel \in Fuels :
          (Transfer(g, dst_base, fuel) /\ g.owned /\ gret'.err = "ENOMEM")
          => /\ \A va \in pages(g) :
                    /\ table'[g.space][va] = None
                    /\ \A e \in table[g.space][va] : e.frame \notin used'
             /\ \A i \in 0 .. (g.size \div PAGE_SIZE) - 1 :
                    table'[Other(g.space)][next_by(dst_base, i)] = None]_vars
\* the part of the claim that the code keeps: nothing stays mapped at the
\* destination, and the frames of the pages that were moved before the failure
\* are back in the allocator
TransferFailureUndoesDestination ==
    [][\A g \in live, dst_base \in GPageAddrs, fuel \in Fuels :
          (Transfer(g, dst_base, fuel) /\ g.owned /\ gret'.err = "ENOMEM")
          => /\ \A i \in 0 .. (g.size \div PAGE_SIZE) - 1 :
                    table'[Other(g.space)][next_by(dst_base, i)] = None
             /\ \A i \in 0 .. fuel - 1 :
                    \A e \in table[g.space][next_by(g.start, i)] : e.frame \notin used'
             /\ live' = live \ {g}]_vars

\* the pages of the live owned grants, as (grant, page address) pairs
OwnedPages == {x \in live \X GPageAddrs : x[1].owned /\ x[2] \in pages(x[1])}
\* the bookkeeping that makes each frame go back once: every page of an owned
\* grant is mapped to a frame that is allocated, and no two pages of owned
\* grants share a frame
OwnedFramesExclusive ==
    /\ \A x \in OwnedPages :
           \E e \in table[x[1].space][x[2]] : e.frame \in used
    /\ \A x, y \in OwnedPages :
           x # y => table[x[1].space][x[2]] # table[y[1].space][y[2]]
                    \/ table[x[1].space][x[2]] = None

\* C38: over the sequences of zeroed, borrow, reborrow, transfer, extract,
\* try_clone and unmap (physmap is given device frames only), no frame is
\* returned to the frame allocator while it is not allocated (neither twice
\* for one allocation nor a frame the allocator never issued), and the frames
\* that will be returned, those of the owned grants, are allocated and each
\* belongs to one page of one owned grant
C38_FramesReturnedOnce ==
    /\ ~badfree
    /\ OwnedFramesExclusive
\* four calls that end with every frame back in the allocator: an owned grant
\* was unmapped last, after a borrowed or cloned grant
C38_Witness ==
    /\ nops >= 4
    /\ gret.op = "unmap" /\ gret.ok
    /\ \E g \in gret.arg : g.owned
    /\ used = {} /\ live = {}
    /\ ~badfree

\* inner has run all its mapping loops
MapDone == map_pc = 6
InText(virt) == virt >= image.text_start /\ virt < image.text_end
InRodata(virt) == virt >= image.rodata_start /\ virt < image.rodata_end

\* C39: every page the boot mapper installs gets the flags of its own virtual
\* address: executable and read-only in the text range, read-only and
\* no-execute in the rodata range, read/write and no-execute elsewhere; hence
\* no mapping outside the text range is executable and none is both writable
\* and executable
C39_FlagsFromOwnAddress ==
    MapDone =>
        \A virt \in KernelVirt : \A e \in ktable[virt] :
            /\ InText(virt) => e.flags = {"execute"}
            /\ (~InText(virt) /\ InRodata(virt)) => e.flags = {}
            /\ (~InText(virt) /\ ~InRodata(virt)) => e.flags = {"write"}
            /\ "execute" \in e.flags => InText(virt)
            /\ ~({"write", "execute"} \subseteq e.flags)
\* the parts that hold: no mapping is writable and executable, and every
\* mapping other than the physmap alias of the kernel image has the flags of
\* its own address
KernelAlias(virt) ==
    \E i \in 0 .. (image.kernel_size_aligned \div PAGE_SIZE) - 1 :
        virt = phys_to_virt(image.kernel_base + i * PAGE_SIZE)
FlagsFromOwnAddressButAlias ==
    MapDone =>
        \A virt \in KernelVirt : \A e \in ktable[virt] :
            /\ ~({"write", "execute"} \subseteq e.flags)
            /\ ~KernelAlias(virt) => e.flags = page_flags(image, virt)
            /\ KernelAlias(virt) =>
                   \E i \in 0 .. (image.kernel_size_aligned \div PAGE_SIZE) - 1 :
                       /\ virt = phys_to_virt(image.kernel_base + i * PAGE_SIZE)
                       /\ e.flags = page_flags(image, KERNEL_OFFSET + i * PAGE_SIZE)
====
